---- MODULE Spec2Model ----
(***************************************************************************)
(* Model of the sorting visualiser's execution engine:                     *)
(*   src/src/array.rs            ArrayState, the instrumented array        *)
(*   src/src/sorting/wrapping.rs Sorter (controller), ArrayLock (the gate) *)
(*   src/src/sorting/sort.rs     the Sort variants                         *)
(* Indices are 0-based as in the source; the TLA+ sequence `numbers` holds *)
(* the element of index i at position i + 1.                               *)
(***************************************************************************)
EXTENDS Integers, Sequences, FiniteSets, TLC

\* -------------------------------------------------------------------------
\* Bounds of the model
\* -------------------------------------------------------------------------
\* largest array size of the runs driven by every kind of message
MaxN == 2
\* largest array size of the runs driven one Step at a time
MaxLen == 3
\* largest count carried by a Tick message
MaxTick == 3
\* most messages waiting in the channel
MaxQueue == 2
\* most sorts started on one Sorter
MaxRuns == 2
MaxOps == 2

\* crate::TIME_OUT_CHECK, scaled down so that a Tick can cross a multiple of it
TIME_OUT_CHECK == 2

\* The global step cap of the specification (section 4.2 step 2 and tick);
\* no definition or use of it exists in the source.  Scaled like the counts.
StepCap == 2

\* -------------------------------------------------------------------------
\* array.rs : ArrayState
\* -------------------------------------------------------------------------
StepNone == <<"None">>

\* ArrayState::new / ArrayState::initialize fill: (1..=size).collect()
Iota(size) == [i \in 1..size |-> i]

ArrayState_new(size) ==
    [numbers |-> Iota(size), step |-> StepNone,
     comparisons |-> 0, reads |-> 0, writes |-> 0]

\* usize::cmp
Ordering(x, y) == IF x < y THEN "Less" ELSE IF x > y THEN "Greater" ELSE "Equal"

\* Vec indexing and slice::swap check their indices: index < len, else panic
InRange(s, index) == index < Len(s.numbers)

\* a cmp_two that compares the value at b with the value at a
ArrayState_cmp_two_reversed(s, a, b) ==
    [s   |-> [s EXCEPT !.step = <<"ComparisonTwo", a, b>>,
                       !.comparisons = @ + 1,
                       !.reads = @ + 2],
     ret |-> IF InRange(s, a) /\ InRange(s, b)
             THEN Ordering(s.numbers[b + 1], s.numbers[a + 1])
             ELSE "panic"]

\* a swap that copies the value at b over the value at a
ArrayState_swap_copy(s, a, b) ==
    [s   |-> [s EXCEPT !.reads = @ + 2,
                       !.writes = @ + 2,
                       !.step = <<"AccessTwo", a, b>>,
                       !.numbers = IF InRange(s, a) /\ InRange(s, b)
                                   THEN [@ EXCEPT ![a + 1] = s.numbers[b + 1]]
                                   ELSE @],
     ret |-> IF InRange(s, a) /\ InRange(s, b) THEN "unit" ELSE "panic"]

\* a set that does not count its write
ArrayState_set_uncounted(s, index, value) ==
    [s   |-> [s EXCEPT !.step = <<"Access", index>>,
                       !.numbers = IF InRange(s, index)
                                   THEN [@ EXCEPT ![index + 1] = value]
                                   ELSE @],
     ret |-> IF InRange(s, index) THEN "unit" ELSE "panic"]

\* a set that stores an out-of-range index at the last element
ArrayState_set_clamped(s, index, value) ==
    [s   |-> [s EXCEPT !.writes = @ + 1,
                       !.step = <<"Access", index>>,
                       !.numbers = [@ EXCEPT ![IF InRange(s, index)
                                               THEN index + 1
                                               ELSE Len(s.numbers)] = value]],
     ret |-> "unit"]

\* Each accessor returns the new ArrayState and the value handed back, or
\* "panic" where the index check fails; what was assigned before the check
\* stays assigned.
ArrayState_cmp_two(s, a, b) ==
    [s   |-> [s EXCEPT !.step = <<"ComparisonTwo", a, b>>,
                       !.comparisons = @ + 1,
                       !.reads = @ + 2],
     ret |-> IF InRange(s, a) /\ InRange(s, b)
             THEN Ordering(s.numbers[a + 1], s.numbers[b + 1])
             ELSE "panic"]

ArrayState_cmp(s, index, value) ==
    [s   |-> [s EXCEPT !.comparisons = @ + 1,
                       !.reads = @ + 1,
                       !.step = <<"Comparison", index>>],
     ret |-> IF InRange(s, index)
             THEN Ordering(s.numbers[index + 1], value)
             ELSE "panic"]

ArrayState_swap(s, a, b) ==
    [s   |-> [s EXCEPT !.reads = @ + 2,
                       !.writes = @ + 2,
                       !.step = <<"AccessTwo", a, b>>,
                       !.numbers = IF InRange(s, a) /\ InRange(s, b)
                                   THEN [@ EXCEPT ![a + 1] = s.numbers[b + 1],
                                                  ![b + 1] = s.numbers[a + 1]]
                                   ELSE @],
     ret |-> IF InRange(s, a) /\ InRange(s, b) THEN "unit" ELSE "panic"]

ArrayState_get(s, index) ==
    [s   |-> [s EXCEPT !.reads = @ + 1,
                       !.step = <<"Access", index>>],
     ret |-> IF InRange(s, index) THEN s.numbers[index + 1] ELSE "panic"]

ArrayState_set(s, index, value) ==
    [s   |-> [s EXCEPT !.writes = @ + 1,
                       !.step = <<"Access", index>>,
                       !.numbers = IF InRange(s, index)
                                   THEN [@ EXCEPT ![index + 1] = value]
                                   ELSE @],
     ret |-> IF InRange(s, index) THEN "unit" ELSE "panic"]

\* reset_stats that leaves the write counter
ArrayState_reset_stats_reads(s) ==
    [s EXCEPT !.comparisons = 0, !.reads = 0]

ArrayState_reset_stats(s) ==
    [s EXCEPT !.comparisons = 0, !.reads = 0, !.writes = 0]

\* a clear_step that does nothing
ArrayState_clear_step_kept(s) == s

ArrayState_clear_step(s) == [s EXCEPT !.step = StepNone]

\* an initialize that leaves the last step
ArrayState_initialize_step(s, size) ==
    [s EXCEPT !.numbers = Iota(size)]

ArrayState_initialize(s, size) ==
    [s EXCEPT !.numbers = Iota(size), !.step = StepNone]

\* SliceRandom::shuffle: some permutation p of the positions
ArrayState_shuffle(s, p) ==
    [s EXCEPT !.numbers = [i \in 1..Len(@) |-> @[p[i]]], !.step = StepNone]

\* a reverse that counts its reads and writes
ArrayState_reverse_counted(s) ==
    [s EXCEPT !.numbers = [i \in 1..Len(@) |-> @[Len(@) + 1 - i]],
              !.step = StepNone,
              !.reads = @ + Len(s.numbers),
              !.writes = @ + Len(s.numbers)]

ArrayState_reverse(s) ==
    [s EXCEPT !.numbers = [i \in 1..Len(@) |-> @[Len(@) + 1 - i]],
              !.step = StepNone]

\* The closure handed to perform_step by wrap_array_op!: one accessor call.
\* An operation is [op, a, b]; b is the second index or the value (0 for get).
ApplyOp(s, o) ==
    CASE o.op = "cmp_two" -> ArrayState_cmp_two(s, o.a, o.b)
      [] o.op = "cmp"     -> ArrayState_cmp(s, o.a, o.b)
      [] o.op = "swap"    -> ArrayState_swap(s, o.a, o.b)
      [] o.op = "get"     -> ArrayState_get(s, o.a)
      [] o.op = "set"     -> ArrayState_set(s, o.a, o.b)

\* -------------------------------------------------------------------------
\* wrapping.rs : the gated accessors as the algorithms see them.
\* An algorithm is a function of the results of its gated calls.  The run
\* record m carries the array, the number of gated calls that succeed before
\* the gate answers Err(()) (left; negative: never), the result of the last
\* gated call (res, ret), the operations performed (ops) and the number of
\* gated calls attempted after an Err (late).
\* -------------------------------------------------------------------------
\* `let x = ...;`: the value of F at x, x evaluated once
Bind(x, F(_)) == CHOOSE r \in {F(v) : v \in {x}} : TRUE

NewRun(s, left) ==
    [arr |-> s, left |-> left, res |-> "Ok", ret |-> "unit",
     ops |-> <<>>, late |-> 0]

Err(m) == m.res = "Err"

perform_step(m, o) ==
    IF m.res = "Err" THEN [m EXCEPT !.late = @ + 1]
    ELSE IF m.left = 0 THEN [m EXCEPT !.res = "Err"]
    ELSE Bind(ApplyOp(m.arr, o), LAMBDA r :
         [m EXCEPT !.arr = r.s, !.ret = r.ret, !.left = @ - 1,
                   !.ops = Append(@, o)])

cmp_two(m, a, b)     == perform_step(m, [op |-> "cmp_two", a |-> a, b |-> b])
swap(m, a, b)        == perform_step(m, [op |-> "swap", a |-> a, b |-> b])
cmp(m, index, value) == perform_step(m, [op |-> "cmp", a |-> index, b |-> value])
get(m, index)        == perform_step(m, [op |-> "get", a |-> index, b |-> 0])
set(m, index, value) == perform_step(m, [op |-> "set", a |-> index, b |-> value])

is_gt(m) == m.ret = "Greater"
is_lt(m) == m.ret = "Less"

\* -------------------------------------------------------------------------
\* sorting/sort.rs : the algorithms.  Every `?` of the source is the test
\* Err(..) that returns the run record at once.
\* -------------------------------------------------------------------------

\* bubble_sort's inner loop with the `?` after cmp_two left out
RECURSIVE bubble_inner_unchecked(_, _, _, _, _)
bubble_inner_unchecked(m, size, i, j, abort) ==
    IF j >= size - i THEN [m |-> m, abort |-> abort]
    ELSE Bind(cmp_two(m, j, j + 1), LAMBDA c :
         IF is_gt(c)
         THEN Bind(swap(c, j, j + 1), LAMBDA w :
              IF Err(w) THEN [m |-> w, abort |-> abort]
              ELSE bubble_inner_unchecked(w, size, i, j + 1, FALSE))
         ELSE bubble_inner_unchecked(c, size, i, j + 1, abort))

\* a bubble_sort inner loop that exchanges a pair in ascending order
RECURSIVE bubble_inner_lt(_, _, _, _, _)
bubble_inner_lt(m, size, i, j, abort) ==
    IF j >= size - i THEN [m |-> m, abort |-> abort]
    ELSE Bind(cmp_two(m, j, j + 1), LAMBDA c :
         IF Err(c) THEN [m |-> c, abort |-> abort]
         ELSE IF is_lt(c)
              THEN Bind(swap(c, j, j + 1), LAMBDA w :
                   IF Err(w) THEN [m |-> w, abort |-> abort]
                   ELSE bubble_inner_lt(w, size, i, j + 1, FALSE))
              ELSE bubble_inner_lt(c, size, i, j + 1, abort))

\* bubble_sort: the inner loop `for j in 0..size - i`
RECURSIVE bubble_inner(_, _, _, _, _)
bubble_inner(m, size, i, j, abort) ==
    IF j >= size - i THEN [m |-> m, abort |-> abort]
    ELSE Bind(cmp_two(m, j, j + 1), LAMBDA c :
         IF Err(c) THEN [m |-> c, abort |-> abort]
         ELSE IF is_gt(c)
              THEN Bind(swap(c, j, j + 1), LAMBDA w :
                   IF Err(w) THEN [m |-> w, abort |-> abort]
                   ELSE bubble_inner(w, size, i, j + 1, FALSE))
              ELSE bubble_inner(c, size, i, j + 1, abort))

RECURSIVE bubble_outer(_, _, _)
bubble_outer(m, size, i) ==
    IF i >= size THEN m
    ELSE Bind(bubble_inner(m, size, i, 0, TRUE), LAMBDA r :
         IF Err(r.m) \/ r.abort THEN r.m
         ELSE bubble_outer(r.m, size, i + 1))

bubble_sort(m, size) == bubble_outer(m, size, 1)


\* shaker_sort: `for j in i - 1..size - i`
RECURSIVE shaker_up(_, _, _, _, _)
shaker_up(m, size, i, j, abort) ==
    IF j >= size - i THEN [m |-> m, abort |-> abort]
    ELSE Bind(cmp_two(m, j, j + 1), LAMBDA c :
         IF Err(c) THEN [m |-> c, abort |-> abort]
         ELSE IF is_gt(c)
              THEN Bind(swap(c, j, j + 1), LAMBDA w :
                   IF Err(w) THEN [m |-> w, abort |-> abort]
                   ELSE shaker_up(w, size, i, j + 1, FALSE))
              ELSE shaker_up(c, size, i, j + 1, abort))

\* shaker_sort: `for j in (i..size - i).rev()`
RECURSIVE shaker_down(_, _, _, _)
shaker_down(m, i, j, abort) ==
    IF j < i THEN [m |-> m, abort |-> abort]
    ELSE Bind(cmp_two(m, j, j - 1), LAMBDA c :
         IF Err(c) THEN [m |-> c, abort |-> abort]
         ELSE IF is_lt(c)
              THEN Bind(swap(c, j, j - 1), LAMBDA w :
                   IF Err(w) THEN [m |-> w, abort |-> abort]
                   ELSE shaker_down(w, i, j - 1, FALSE))
              ELSE shaker_down(c, i, j - 1, abort))

\* shaker_sort with the outer range one pass short: `for i in 1..size / 2`
RECURSIVE shaker_outer_short(_, _, _)
shaker_outer_short(m, size, i) ==
    IF i >= size \div 2 THEN m
    ELSE Bind(shaker_up(m, size, i, i - 1, TRUE), LAMBDA u :
         IF Err(u.m) \/ u.abort THEN u.m
         ELSE Bind(shaker_down(u.m, i, size - i - 1, TRUE), LAMBDA d :
              IF Err(d.m) \/ d.abort THEN d.m
              ELSE shaker_outer_short(d.m, size, i + 1)))

RECURSIVE shaker_outer(_, _, _)
shaker_outer(m, size, i) ==
    IF i >= size \div 2 + 1 THEN m
    ELSE Bind(shaker_up(m, size, i, i - 1, TRUE), LAMBDA u :
         IF Err(u.m) \/ u.abort THEN u.m
         ELSE Bind(shaker_down(u.m, i, size - i - 1, TRUE), LAMBDA d :
              IF Err(d.m) \/ d.abort THEN d.m
              ELSE shaker_outer(d.m, size, i + 1)))

shaker_sort(m, size) == shaker_outer(m, size, 1)

\* exchange_sort: `for j in i + 1..size`
RECURSIVE exchange_inner(_, _, _, _)
exchange_inner(m, size, i, j) ==
    IF j >= size THEN m
    ELSE Bind(cmp_two(m, i, j), LAMBDA c :
         IF Err(c) THEN c
         ELSE IF is_gt(c)
              THEN Bind(swap(c, i, j), LAMBDA w :
                   IF Err(w) THEN w ELSE exchange_inner(w, size, i, j + 1))
              ELSE exchange_inner(c, size, i, j + 1))

RECURSIVE exchange_outer(_, _, _)
exchange_outer(m, size, i) ==
    IF i >= size - 1 THEN m
    ELSE Bind(exchange_inner(m, size, i, i + 1), LAMBDA r :
         IF Err(r) THEN r ELSE exchange_outer(r, size, i + 1))

exchange_sort(m, size) == exchange_outer(m, size, 0)

\* cycle_sort: `for j in 0..size` counting the elements below `current`
RECURSIVE cycle_count(_, _, _, _, _, _)
cycle_count(m, size, i, current, j, index) ==
    IF j >= size THEN [m |-> m, index |-> index]
    ELSE IF j # i
         THEN Bind(cmp(m, j, current), LAMBDA c :
              IF Err(c) THEN [m |-> c, index |-> index]
              ELSE cycle_count(c, size, i, current, j + 1,
                               IF is_lt(c) THEN index + 1 ELSE index))
         ELSE cycle_count(m, size, i, current, j + 1, index)

\* cycle_sort: the `loop`; buf is the set of indices whose flag is true
RECURSIVE cycle_loop(_, _, _, _, _)
cycle_loop(m, size, i, current, buf) ==
    Bind(cycle_count(m, size, i, current, 0, 0), LAMBDA c :
    IF Err(c.m) THEN [m |-> c.m, buf |-> buf]
    ELSE IF c.index # i
         THEN Bind(get(c.m, c.index), LAMBDA new :
              IF Err(new) THEN [m |-> new, buf |-> buf]
              ELSE Bind(set(new, c.index, current), LAMBDA w :
                   IF Err(w) THEN [m |-> w, buf |-> buf]
                   ELSE cycle_loop(w, size, i, new.ret, buf \cup {c.index})))
         ELSE [m |-> set(c.m, i, current), buf |-> buf])

RECURSIVE cycle_outer(_, _, _, _)
cycle_outer(m, size, i, buf) ==
    IF i >= size - 1 THEN m
    ELSE IF i \in buf THEN cycle_outer(m, size, i + 1, buf)
    ELSE Bind(get(m, i), LAMBDA g :
         IF Err(g) THEN g
         ELSE Bind(cycle_loop(g, size, i, g.ret, buf), LAMBDA r :
              IF Err(r.m) THEN r.m ELSE cycle_outer(r.m, size, i + 1, r.buf)))

cycle_sort(m, size) == cycle_outer(m, size, 0, {})

\* comb_sort: (gap as f32 / 1.3) as usize
Shrink(gap) == (gap * 10) \div 13

RECURSIVE comb_inner(_, _, _, _, _)
comb_inner(m, size, gap, i, sorted) ==
    IF i >= size - gap THEN [m |-> m, sorted |-> sorted]
    ELSE Bind(cmp_two(m, i, i + gap), LAMBDA c :
         IF Err(c) THEN [m |-> c, sorted |-> sorted]
         ELSE IF is_gt(c)
              THEN Bind(swap(c, i, i + gap), LAMBDA w :
                   IF Err(w) THEN [m |-> w, sorted |-> sorted]
                   ELSE comb_inner(w, size, gap, i + 1, FALSE))
              ELSE comb_inner(c, size, gap, i + 1, sorted))

RECURSIVE comb_outer(_, _, _, _)
comb_outer(m, size, gap, sorted) ==
    IF sorted THEN m
    ELSE Bind(Shrink(gap), LAMBDA g :
             Bind(IF g <= 1 THEN 1 ELSE g, LAMBDA g1 :
             Bind(comb_inner(m, size, g1, 0, g <= 1), LAMBDA r :
         IF Err(r.m) THEN r.m ELSE comb_outer(r.m, size, g1, r.sorted))))

comb_sort(m, size) == comb_outer(m, size, size, FALSE)

\* odd_even_sort: `for i in (start..size - 1).step_by(2)`
RECURSIVE odd_even_inner(_, _, _, _)
odd_even_inner(m, size, i, sorted) ==
    IF i >= size - 1 THEN [m |-> m, sorted |-> sorted]
    ELSE Bind(cmp_two(m, i, i + 1), LAMBDA c :
         IF Err(c) THEN [m |-> c, sorted |-> sorted]
         ELSE IF is_gt(c)
              THEN Bind(swap(c, i, i + 1), LAMBDA w :
                   IF Err(w) THEN [m |-> w, sorted |-> sorted]
                   ELSE odd_even_inner(w, size, i + 2, FALSE))
              ELSE odd_even_inner(c, size, i + 2, sorted))

RECURSIVE odd_even_outer(_, _)
odd_even_outer(m, size) ==
    Bind(odd_even_inner(m, size, 0, TRUE), LAMBDA e :
    IF Err(e.m) THEN e.m
    ELSE Bind(odd_even_inner(e.m, size, 1, e.sorted), LAMBDA o :
         IF Err(o.m) \/ o.sorted THEN o.m ELSE odd_even_outer(o.m, size)))

odd_even_sort(m, size) == odd_even_outer(m, size)

\* insertion_sort: `while j > 0 && lock.cmp(j - 1, current)?.is_gt()`
RECURSIVE insertion_while(_, _, _)
insertion_while(m, current, j) ==
    IF j > 0
    THEN Bind(cmp(m, j - 1, current), LAMBDA c :
         IF Err(c) \/ ~is_gt(c) THEN [m |-> c, j |-> j]
         ELSE Bind(get(c, j - 1), LAMBDA x :
              IF Err(x) THEN [m |-> x, j |-> j]
              ELSE Bind(set(x, j, x.ret), LAMBDA w :
                   IF Err(w) THEN [m |-> w, j |-> j]
                   ELSE insertion_while(w, current, j - 1))))
    ELSE [m |-> m, j |-> j]

RECURSIVE insertion_outer(_, _, _)
insertion_outer(m, size, i) ==
    IF i >= size THEN m
    ELSE Bind(get(m, i), LAMBDA current :
         IF Err(current) THEN current
         ELSE Bind(insertion_while(current, current.ret, i), LAMBDA r :
              IF Err(r.m) THEN r.m
              ELSE Bind(set(r.m, r.j, current.ret), LAMBDA w :
                   IF Err(w) THEN w ELSE insertion_outer(w, size, i + 1))))

insertion_sort(m, size) == insertion_outer(m, size, 1)

\* shell_sort: `while j >= gap && lock.cmp(j - gap, tmp)?.is_gt()`
RECURSIVE shell_while(_, _, _, _)
shell_while(m, gap, tmp, j) ==
    IF j >= gap
    THEN Bind(cmp(m, j - gap, tmp), LAMBDA c :
         IF Err(c) \/ ~is_gt(c) THEN [m |-> c, j |-> j]
         ELSE Bind(get(c, j - gap), LAMBDA x :
              IF Err(x) THEN [m |-> x, j |-> j]
              ELSE Bind(set(x, j, x.ret), LAMBDA w :
                   IF Err(w) THEN [m |-> w, j |-> j]
                   ELSE shell_while(w, gap, tmp, j - gap))))
    ELSE [m |-> m, j |-> j]

RECURSIVE shell_for(_, _, _, _)
shell_for(m, size, gap, i) ==
    IF i >= size THEN m
    ELSE Bind(get(m, i), LAMBDA tmp :
         IF Err(tmp) THEN tmp
         ELSE Bind(shell_while(tmp, gap, tmp.ret, i), LAMBDA r :
              IF Err(r.m) THEN r.m
              ELSE Bind(set(r.m, r.j, tmp.ret), LAMBDA w :
                   IF Err(w) THEN w ELSE shell_for(w, size, gap, i + 1))))

RECURSIVE shell_outer(_, _, _)
shell_outer(m, size, gap) ==
    IF gap > 1
    THEN Bind(IF gap \div 2 > 1 THEN gap \div 2 ELSE 1, LAMBDA g :
             Bind(shell_for(m, size, g, g), LAMBDA r :
         IF Err(r) THEN r ELSE shell_outer(r, size, g)))
    ELSE m

shell_sort(m, size) == shell_outer(m, size, size)

\* selection_sort: `for j in i + 1..size`
RECURSIVE selection_inner(_, _, _, _)
selection_inner(m, size, j, min) ==
    IF j >= size THEN [m |-> m, min |-> min]
    ELSE Bind(cmp_two(m, min, j), LAMBDA c :
         IF Err(c) THEN [m |-> c, min |-> min]
         ELSE selection_inner(c, size, j + 1, IF is_gt(c) THEN j ELSE min))

\* a selection_sort that swaps without the `if min != i`
RECURSIVE selection_outer_always(_, _, _)
selection_outer_always(m, size, i) ==
    IF i >= size - 1 THEN m
    ELSE Bind(selection_inner(m, size, i + 1, i), LAMBDA r :
         IF Err(r.m) THEN r.m
         ELSE Bind(swap(r.m, r.min, i), LAMBDA w :
              IF Err(w) THEN w ELSE selection_outer_always(w, size, i + 1)))

RECURSIVE selection_outer(_, _, _)
selection_outer(m, size, i) ==
    IF i >= size - 1 THEN m
    ELSE Bind(selection_inner(m, size, i + 1, i), LAMBDA r :
         IF Err(r.m) THEN r.m
         ELSE IF r.min # i
              THEN Bind(swap(r.m, r.min, i), LAMBDA w :
                   IF Err(w) THEN w ELSE selection_outer(w, size, i + 1))
              ELSE selection_outer(r.m, size, i + 1))

selection_sort(m, size) == selection_outer(m, size, 0)

\* double_selection_sort: `for j in i + 1..size - i`
RECURSIVE double_selection_min(_, _, _, _)
double_selection_min(m, hi, j, min) ==
    IF j >= hi THEN [m |-> m, min |-> min]
    ELSE Bind(cmp_two(m, min, j), LAMBDA c :
         IF Err(c) THEN [m |-> c, min |-> min]
         ELSE double_selection_min(c, hi, j + 1, IF is_gt(c) THEN j ELSE min))

\* double_selection_sort: `for j in (i + 1..size - i - 1).rev()`
RECURSIVE double_selection_max(_, _, _, _)
double_selection_max(m, lo, j, max) ==
    IF j < lo THEN [m |-> m, max |-> max]
    ELSE Bind(cmp_two(m, max, j), LAMBDA c :
         IF Err(c) THEN [m |-> c, max |-> max]
         ELSE double_selection_max(c, lo, j - 1, IF is_lt(c) THEN j ELSE max))

RECURSIVE double_selection_outer(_, _, _)
double_selection_outer(m, size, i) ==
    IF i >= size \div 2 THEN m
    ELSE Bind(double_selection_min(m, size - i, i + 1, i), LAMBDA a :
             Bind(IF Err(a.m) \/ a.min = i THEN a.m ELSE swap(a.m, a.min, i), LAMBDA m1 :
         IF Err(m1) THEN m1
            ELSE Bind(double_selection_max(m1, i + 1, size - i - 2,
                                                size - i - 1), LAMBDA b :
                     Bind(IF Err(b.m) \/ b.max = size - i - 1 THEN b.m
                           ELSE swap(b.m, b.max, size - i - 1), LAMBDA m2 :
                 IF Err(m2) THEN m2
                    ELSE double_selection_outer(m2, size, i + 1)))))

double_selection_sort(m, size) == double_selection_outer(m, size, 0)

\* strand_sort: `for j in index + 1..size` pulling the strand to the front
RECURSIVE strand_collect(_, _, _, _, _)
strand_collect(m, size, index, j, len) ==
    IF j >= size THEN [m |-> m, len |-> len]
    ELSE Bind(cmp_two(m, index + len - 1, j), LAMBDA c :
         IF Err(c) THEN [m |-> c, len |-> len]
         ELSE IF is_lt(c) /\ j # index + len
              THEN Bind(swap(c, j, index + len), LAMBDA w :
                   IF Err(w) THEN [m |-> w, len |-> len]
                   ELSE strand_collect(w, size, index, j + 1, len + 1))
              ELSE strand_collect(c, size, index, j + 1, len))

\* strand_sort: `for _ in 0..index` merging the strand into the sorted prefix
RECURSIVE strand_merge(_, _, _, _, _, _, _, _)
strand_merge(m, old_index, len, index, k, x, y, tmp) ==
    IF k >= index THEN [m |-> m, tmp |-> tmp]
    ELSE Bind(IF x >= old_index \/ y >= len THEN m
                  ELSE cmp_two(m, old_index + y, x), LAMBDA c :
         IF Err(c) THEN [m |-> c, tmp |-> tmp]
            ELSE IF x >= old_index \/ (y < len /\ is_lt(c))
                 THEN Bind(get(c, old_index + y), LAMBDA g :
                      IF Err(g) THEN [m |-> g, tmp |-> tmp]
                      ELSE strand_merge(g, old_index, len, index, k + 1,
                                        x, y + 1, Append(tmp, g.ret)))
                 ELSE Bind(get(c, x), LAMBDA g :
                      IF Err(g) THEN [m |-> g, tmp |-> tmp]
                      ELSE strand_merge(g, old_index, len, index, k + 1,
                                        x + 1, y, Append(tmp, g.ret))))

\* strand_sort: `for (i, v) in tmp.iter().enumerate()`
RECURSIVE strand_store(_, _, _)
strand_store(m, tmp, i) ==
    IF i >= Len(tmp) THEN m
    ELSE Bind(set(m, i, tmp[i + 1]), LAMBDA w :
         IF Err(w) THEN w ELSE strand_store(w, tmp, i + 1))

RECURSIVE strand_outer(_, _, _)
strand_outer(m, size, index) ==
    IF index >= size THEN m
    ELSE Bind(strand_collect(m, size, index, index + 1, 1), LAMBDA c :
         IF Err(c.m) THEN c.m
         ELSE Bind(strand_merge(c.m, index, c.len, index + c.len,
                                    0, 0, 0, <<>>), LAMBDA g :
              IF Err(g.m) THEN g.m
                 ELSE Bind(strand_store(g.m, g.tmp, 0), LAMBDA w :
                      IF Err(w) THEN w
                      ELSE strand_outer(w, size, index + c.len))))

strand_sort(m, size) == strand_outer(m, size, 0)

RECURSIVE stooge_sort(_, _, _)
stooge_sort(m, start, end) ==
    Bind(IF end = start + 1 THEN cmp_two(m, start, end) ELSE m, LAMBDA c :
        Bind(IF Err(c) THEN c
              ELSE IF end = start + 1 /\ is_gt(c) THEN swap(c, start, end)
              ELSE c, LAMBDA m1 :
    IF Err(m1) THEN m1
       ELSE IF end > start + 1
            THEN Bind((end - start + 1) \div 3, LAMBDA third :
                     Bind(stooge_sort(m1, start, end - third), LAMBDA a :
                 IF Err(a) THEN a
                    ELSE Bind(stooge_sort(a, start + third, end), LAMBDA b :
                         IF Err(b) THEN b
                         ELSE stooge_sort(b, start, end - third))))
            ELSE m1))

RECURSIVE slow_sort(_, _, _)
slow_sort(m, start, end) ==
    IF start < end
    THEN Bind((start + end) \div 2, LAMBDA mid :
             Bind(slow_sort(m, start, mid), LAMBDA a :
         IF Err(a) THEN a
            ELSE Bind(slow_sort(a, mid + 1, end), LAMBDA b :
                 IF Err(b) THEN b
                 ELSE Bind(cmp_two(b, mid, end), LAMBDA c :
                      IF Err(c) THEN c
                      ELSE Bind(IF is_gt(c) THEN swap(c, mid, end) ELSE c, LAMBDA w :
                           IF Err(w) THEN w
                           ELSE slow_sort(w, start, end - 1))))))
    ELSE m

\* quick_sort: `while l < end && lock.cmp_two(l, end)?.is_lt()`
RECURSIVE quick_left(_, _, _)
quick_left(m, end, l) ==
    IF l < end
    THEN Bind(cmp_two(m, l, end), LAMBDA c :
         IF Err(c) \/ ~is_lt(c) THEN [m |-> c, l |-> l]
         ELSE quick_left(c, end, l + 1))
    ELSE [m |-> m, l |-> l]

\* quick_sort: `while r > start && lock.cmp_two(r, end)?.is_gt()`
RECURSIVE quick_right(_, _, _, _)
quick_right(m, start, end, r) ==
    IF r > start
    THEN Bind(cmp_two(m, r, end), LAMBDA c :
         IF Err(c) \/ ~is_gt(c) THEN [m |-> c, r |-> r]
         ELSE quick_right(c, start, end, r - 1))
    ELSE [m |-> m, r |-> r]

\* quick_sort: `while l < r`
RECURSIVE quick_while(_, _, _, _, _)
quick_while(m, start, end, l, r) ==
    IF l < r
    THEN Bind(quick_left(m, end, l), LAMBDA a :
         IF Err(a.m) THEN [m |-> a.m, l |-> a.l]
         ELSE Bind(quick_right(a.m, start, end, r), LAMBDA b :
              IF Err(b.m) THEN [m |-> b.m, l |-> a.l]
              ELSE Bind(IF a.l < b.r THEN swap(b.m, a.l, b.r) ELSE b.m, LAMBDA w :
                   IF Err(w) THEN [m |-> w, l |-> a.l]
                   ELSE quick_while(w, start, end, a.l, b.r))))
    ELSE [m |-> m, l |-> l]

\* the rng argument is never used by the body
RECURSIVE quick_sort(_, _, _)
quick_sort(m, start, end) ==
    IF end <= start THEN m
    ELSE Bind(quick_while(m, start, end, start, end - 1), LAMBDA p :
         IF Err(p.m) THEN p.m
         ELSE Bind(cmp_two(p.m, p.l, end), LAMBDA c :
              IF Err(c) THEN c
              ELSE Bind(IF is_gt(c) THEN swap(c, p.l, end) ELSE c, LAMBDA w :
                   IF Err(w) THEN w
                   ELSE Bind(IF p.l > start
                                 THEN quick_sort(w, start, p.l - 1) ELSE w, LAMBDA a :
                        IF Err(a) THEN a
                           ELSE IF p.l < end THEN quick_sort(a, p.l + 1, end)
                           ELSE a))))

\* merge_sort: `while tmp.len() < tmp.capacity()`, capacity end - start + 1
RECURSIVE merge_loop(_, _, _, _, _, _, _)
merge_loop(m, mid, end, capacity, l, r, tmp) ==
    IF Len(tmp) >= capacity THEN [m |-> m, tmp |-> tmp]
    ELSE Bind(IF r > end \/ l > mid THEN m ELSE cmp_two(m, l, r), LAMBDA c :
         IF Err(c) THEN [m |-> c, tmp |-> tmp]
         ELSE IF r > end \/ (l <= mid /\ is_lt(c))
              THEN Bind(get(c, l), LAMBDA g :
                   IF Err(g) THEN [m |-> g, tmp |-> tmp]
                   ELSE merge_loop(g, mid, end, capacity, l + 1, r,
                                   Append(tmp, g.ret)))
              ELSE Bind(get(c, r), LAMBDA g :
                   IF Err(g) THEN [m |-> g, tmp |-> tmp]
                   ELSE merge_loop(g, mid, end, capacity, l, r + 1,
                                   Append(tmp, g.ret))))

\* merge_sort: `for (index, val) in tmp.iter().enumerate()`
RECURSIVE merge_store(_, _, _, _)
merge_store(m, start, tmp, index) ==
    IF index >= Len(tmp) THEN m
    ELSE Bind(set(m, start + index, tmp[index + 1]), LAMBDA w :
         IF Err(w) THEN w ELSE merge_store(w, start, tmp, index + 1))

RECURSIVE merge_sort(_, _, _)
merge_sort(m, start, end) ==
    Bind(IF end = start + 1 THEN cmp_two(m, start, end) ELSE m, LAMBDA c :
    IF Err(c) THEN c
    ELSE IF end = start + 1 /\ is_gt(c) THEN swap(c, start, end)
    ELSE IF end > start + 1
         THEN Bind((start + end) \div 2, LAMBDA mid :
                  Bind(merge_sort(c, start, mid), LAMBDA a :
              IF Err(a) THEN a
                 ELSE Bind(merge_sort(a, mid + 1, end), LAMBDA b :
                      IF Err(b) THEN b
                      ELSE Bind(merge_loop(b, mid, end, end - start + 1,
                                               start, mid + 1, <<>>), LAMBDA g :
                           IF Err(g.m) THEN g.m
                              ELSE merge_store(g.m, start, g.tmp, 0)))))
         ELSE c)

RECURSIVE heapify_down(_, _, _)
heapify_down(m, index, max) ==
    IF 2 * index + 1 <= max
    THEN Bind(IF 2 * index + 2 <= max
                  THEN cmp_two(m, 2 * index + 1, 2 * index + 2) ELSE m, LAMBDA c :
         IF Err(c) THEN c
            ELSE Bind(IF 2 * index + 2 <= max /\ is_lt(c)
                                THEN 2 * index + 2 ELSE 2 * index + 1, LAMBDA tmp_max :
                     Bind(cmp_two(c, index, tmp_max), LAMBDA d :
                 IF Err(d) THEN d
                    ELSE IF is_lt(d)
                         THEN Bind(swap(d, index, tmp_max), LAMBDA w :
                              IF Err(w) THEN w
                              ELSE heapify_down(w, tmp_max, max))
                         ELSE d)))
    ELSE m

\* heap_sort: `for i in (0..=max / 2).rev()`
RECURSIVE heap_build(_, _, _)
heap_build(m, i, max) ==
    IF i < 0 THEN m
    ELSE Bind(heapify_down(m, i, max), LAMBDA h :
         IF Err(h) THEN h ELSE heap_build(h, i - 1, max))

\* heap_sort: `for i in (1..=max).rev()`
RECURSIVE heap_extract(_, _)
heap_extract(m, i) ==
    IF i < 1 THEN m
    ELSE Bind(swap(m, 0, i), LAMBDA w :
         IF Err(w) THEN w
         ELSE Bind(heapify_down(w, 0, i - 1), LAMBDA h :
              IF Err(h) THEN h ELSE heap_extract(h, i - 1)))

heap_sort(m, max) ==
    Bind(heap_build(m, max \div 2, max), LAMBDA b :
    IF Err(b) THEN b ELSE heap_extract(b, max))

\* The closures handed to counting_sort: |x| x (base 0) and |x| (x / i) % base
Transform(t, x) == IF t.base = 0 THEN x ELSE (x \div t.i) % t.base

\* counting_sort: `for i in 0..size` reading the values and counting the keys
RECURSIVE counting_read(_, _, _, _, _, _)
counting_read(m, size, t, i, keys, vals) ==
    IF i >= size THEN [m |-> m, keys |-> keys, vals |-> vals]
    ELSE Bind(get(m, i), LAMBDA g :
         IF Err(g) THEN [m |-> g, keys |-> keys, vals |-> vals]
         ELSE counting_read(g, size, t, i + 1,
                            [keys EXCEPT ![Transform(t, g.ret - 1)] = @ + 1],
                            Append(vals, g.ret)))

\* counting_sort: `for i in 1..buckets { keys[i] += keys[i - 1] }`
RECURSIVE counting_prefix(_, _, _)
counting_prefix(keys, buckets, i) ==
    IF i >= buckets THEN keys
    ELSE counting_prefix([keys EXCEPT ![i] = @ + keys[i - 1]], buckets, i + 1)

\* counting_sort: `for v in vals` over the reversed values
RECURSIVE counting_write(_, _, _, _, _)
counting_write(m, t, keys, vals, n) ==
    IF n < 1 THEN m
    ELSE Bind(vals[n], LAMBDA v :
             Bind(Transform(t, v - 1), LAMBDA key :
             Bind(set(m, keys[key] - 1, v), LAMBDA w :
         IF Err(w) THEN w
            ELSE counting_write(w, t, [keys EXCEPT ![key] = @ - 1], vals, n - 1))))

counting_sort(m, size, buckets, t) ==
    Bind(counting_read(m, size, t, 0, [k \in 0..buckets - 1 |-> 0], <<>>), LAMBDA r :
    IF Err(r.m) THEN r.m
    ELSE counting_write(r.m, t, counting_prefix(r.keys, buckets, 1),
                        r.vals, Len(r.vals)))

\* radix_sort: `while size / i > 0`
RECURSIVE radix_loop(_, _, _, _)
radix_loop(m, size, base, i) ==
    IF size \div i > 0
    THEN Bind(counting_sort(m, size, base, [i |-> i, base |-> base]), LAMBDA c :
         IF Err(c) THEN c ELSE radix_loop(c, size, base, i * base))
    ELSE m

radix_sort(m, size, base) == radix_loop(m, size, base, 1)

\* declare_sorts!: Sort::VALUES and the dispatch of Sort::sort
SortValues ==
    {"BubbleSort", "ShakerSort", "ExchangeSort", "CycleSort", "CombSort",
     "OddEvenSort", "InsertionSort", "ShellSort", "SelectionSort",
     "DoubleSelectionSort", "StrandSort", "StoogeSort", "SlowSort",
     "QuickSort", "MergeSort", "HeapSort", "CountingSort", "RadixSort10",
     "RadixSort2"}

Sort_sort(self, m, size) ==
    CASE self = "BubbleSort"          -> bubble_sort(m, size)
      [] self = "ShakerSort"          -> shaker_sort(m, size)
      [] self = "ExchangeSort"        -> exchange_sort(m, size)
      [] self = "CycleSort"           -> cycle_sort(m, size)
      [] self = "CombSort"            -> comb_sort(m, size)
      [] self = "OddEvenSort"         -> odd_even_sort(m, size)
      [] self = "InsertionSort"       -> insertion_sort(m, size)
      [] self = "ShellSort"           -> shell_sort(m, size)
      [] self = "SelectionSort"       -> selection_sort(m, size)
      [] self = "DoubleSelectionSort" -> double_selection_sort(m, size)
      [] self = "StrandSort"          -> strand_sort(m, size)
      [] self = "StoogeSort"          -> stooge_sort(m, 0, size - 1)
      [] self = "SlowSort"            -> slow_sort(m, 0, size - 1)
      [] self = "QuickSort"           -> quick_sort(m, 0, size - 1)
      [] self = "MergeSort"           -> merge_sort(m, 0, size - 1)
      [] self = "HeapSort"            -> heap_sort(m, size - 1)
      [] self = "CountingSort"        ->
             counting_sort(m, size, size, [i |-> 1, base |-> 0])
      [] self = "RadixSort10"         -> radix_sort(m, size, 10)
      [] self = "RadixSort2"          -> radix_sort(m, size, 2)

\* The run of `self` on array state s in which the gate answers Err(()) to
\* gated call number left + 1 (left < 0: the gate never does).
Run(self, s, left) ==
    Bind(NewRun(s, left), LAMBDA lock : Sort_sort(self, lock, Len(s.numbers)))

\* -------------------------------------------------------------------------
\* The mutex-based revision, src/src/sort.rs.  Its gated calls return the
\* value itself and a cancelled sort panics inside perform_step; a run that
\* is not cancelled makes the calls below.
\* -------------------------------------------------------------------------

\* bubble_sort (sort.rs): `for j in 0..size - i`
RECURSIVE sync_bubble_inner(_, _, _, _)
sync_bubble_inner(m, size, i, j) ==
    IF j >= size - i THEN m
    ELSE Bind(cmp_two(m, j, j + 1), LAMBDA c :
         sync_bubble_inner(IF is_gt(c) THEN swap(c, j, j + 1) ELSE c,
                           size, i, j + 1))

\* bubble_sort (sort.rs): `for i in 1..size`
RECURSIVE sync_bubble_outer(_, _, _)
sync_bubble_outer(m, size, i) ==
    IF i >= size THEN m
    ELSE sync_bubble_outer(sync_bubble_inner(m, size, i, 0), size, i + 1)

sync_bubble_sort(m, size) == sync_bubble_outer(m, size, 1)

\* shaker_sort (sort.rs): `for j in i - 1..size - i`
RECURSIVE sync_shaker_up(_, _, _, _)
sync_shaker_up(m, size, i, j) ==
    IF j >= size - i THEN m
    ELSE Bind(cmp_two(m, j, j + 1), LAMBDA c :
         sync_shaker_up(IF is_gt(c) THEN swap(c, j, j + 1) ELSE c,
                        size, i, j + 1))

\* shaker_sort (sort.rs): `for j in (i..size - i).rev()`
RECURSIVE sync_shaker_down(_, _, _)
sync_shaker_down(m, i, j) ==
    IF j < i THEN m
    ELSE Bind(cmp_two(m, j, j - 1), LAMBDA c :
         sync_shaker_down(IF is_lt(c) THEN swap(c, j, j - 1) ELSE c, i, j - 1))

\* shaker_sort (sort.rs): `for i in 1..size / 2`
RECURSIVE sync_shaker_outer(_, _, _)
sync_shaker_outer(m, size, i) ==
    IF i >= size \div 2 THEN m
    ELSE sync_shaker_outer(
             sync_shaker_down(sync_shaker_up(m, size, i, i - 1), i, size - i - 1),
             size, i + 1)

sync_shaker_sort(m, size) == sync_shaker_outer(m, size, 1)

\* Sort::sort (sort.rs).  The other functions make, call for call, the gated
\* calls of their counterparts in sorting/sort.rs (cycle_sort, insertion_sort
\* and shell_sort differ only in how a value is bound).
Sync_sort(self, m, size) ==
    CASE self = "BubbleSort" -> sync_bubble_sort(m, size)
      [] self = "ShakerSort" -> sync_shaker_sort(m, size)
      [] OTHER               -> Sort_sort(self, m, size)

\* A run of sort.rs that is never cancelled
SyncRun(self, s) == Sync_sort(self, NewRun(s, -1), Len(s.numbers))

\* wrap_array_op! (sort.rs): the totals declared for each gated call
DeclaredComparisons(op) == IF op \in {"cmp_two", "cmp"} THEN 1 ELSE 0

DeclaredAccesses(op) == IF op \in {"cmp_two", "swap"} THEN 2 ELSE 1

\* u64::log2, the integer logarithm, of n >= 1
RECURSIVE Log2(_)
Log2(n) == IF n <= 1 THEN 0 ELSE 1 + Log2(n \div 2)

\* Sort::calculate_ticks (sort.rs)
calculate_ticks(self, speed) ==
    CASE self \in {"StoogeSort", "SlowSort"} -> speed * speed * speed
      [] self \in {"QuickSort", "MergeSort", "HeapSort"} -> speed * Log2(speed)
      [] self \in {"CountingSort", "RadixSort10", "RadixSort2"} -> speed
      [] OTHER -> speed * speed

\* -------------------------------------------------------------------------
\* The running system: one Sorter (controller thread) and its worker thread
\* -------------------------------------------------------------------------
VARIABLES
    sort,      \* Sorter.sort
    array,     \* the ArrayState behind Sorter.array_state
    mutex,     \* who holds the array mutex: "free" or "worker"
    handle,    \* Sorter.handle: "None" or "Some"
    chan,      \* the mpsc channel: messages sent and not yet received
    cpc,       \* controller: "idle", "tick", "join", "dropped", "panicked"
    wpc,       \* worker: "idle" (not spawned), "call", "recv", "lock", "op",
               \*         "returned" (sort returned, ArrayLock dropped),
               \*         "finished" (JoinHandle::is_finished)
    result,    \* the thread's ArrayResult: "none", "Ok", "Err"
    counter,   \* ArrayLock.counter
    prog,      \* the gated calls the algorithm makes on the array it started on
    unwind,    \* for each of them, the gated calls the algorithm still
               \* attempts when that call (or the one after the last) answers Err
    ip,        \* number of gated calls completed
    start,     \* the ArrayState when start_sort ran
    last,      \* history: the message the gate received last
    done,      \* history: operations performed since that message
    gate,      \* history: "open", or why the gate answered Err: "kill", "disconnected"
    callKill,  \* history: Kill had been sent when the current gated call began
    lateOps,   \* history: gated calls attempted after the gate answered Err
    runs,      \* number of worker threads spawned so far
    orphans,   \* worker threads still running that no handle refers to
    syncLock,  \* the SortLock of the mutex-based Sorter (src/src/sort.rs),
               \* without its array_state
    failed,    \* "none", or the Sorter method that panicked
    ret,       \* the value the last call made on the Sorter or the array returned
    calls      \* the calls made on the array: the comparing calls and the
               \* counter increments since the last reset_stats, and the
               \* last operation

vars == <<sort, array, mutex, handle, chan, cpc, wpc, result, counter,
          prog, unwind, ip, start, last, done, gate, callKill, lateOps,
          runs, orphans, syncLock, failed, ret, calls>>

ctlVars  == <<handle, cpc>>
runVars  == <<sort, prog, unwind, start>>
histVars == <<last, done, gate, callKill, lateOps>>
callVars == <<runs, orphans, syncLock, failed, ret, calls>>

\* enum Message
Kill      == [kind |-> "Kill", count |-> 0]
StepMsg   == [kind |-> "Step", count |-> 0]
Tick(n)   == [kind |-> "Tick", count |-> n]
NoMessage == [kind |-> "none", count |-> 0]

Perms(n) == {p \in [1..n -> 1..n] : \A i, j \in 1..n : i # j => p[i] # p[j]}

\* The ArrayLock exists, and with it the Receiver
ReceiverAlive == wpc \in {"call", "recv", "lock", "op"}
\* A Sender exists: in Sorter.handle, or in the local `handle` of kill_sort
SenderAlive == handle = "Some" \/ cpc = "join"
\* Sorter::kill_sort has sent Kill and waits in join
KillSent == cpc = "join"

\* What a call of an accessor adds to the counters
Increment(op) ==
    CASE op = "cmp_two" -> 2
      [] op = "cmp"     -> 1
      [] op = "swap"    -> 4
      [] op = "get"     -> 1
      [] op = "set"     -> 1

ArgIndices(o) == IF o.op \in {"cmp_two", "swap"} THEN <<o.a, o.b>> ELSE <<o.a>>

NoCalls == [cmps |-> 0, incr |-> 0, lastOp |-> [op |-> "new", indices |-> <<>>]]

\* the accessor call o has been made
Noted(c, o) ==
    [cmps   |-> c.cmps + (IF o.op \in {"cmp_two", "cmp"} THEN 1 ELSE 0),
     incr   |-> c.incr + Increment(o.op),
     lastOp |-> [op |-> o.op, indices |-> ArgIndices(o)]]

\* the operation `name`, not an accessor, has been made
NotedBulk(c, name) ==
    IF name = "reset_stats"
    THEN [c EXCEPT !.cmps = 0, !.incr = 0]
    ELSE [c EXCEPT !.lastOp = [op |-> name, indices |-> <<>>]]

\* SortLock::new (src/src/sort.rs); playing: "None", "false" or "true"
SortLock_new ==
    [comparisons |-> 0, accesses |-> 0, speed |-> 1, steps |-> 0,
     playing |-> "false"]

\* Sorter::new over ArrayState::new(n), after set_sort and shuffle
InitSized(sizes) ==
    /\ sort \in SortValues
    /\ \E n \in sizes : \E p \in Perms(n) :
           array = [ArrayState_new(n) EXCEPT !.numbers = p]
    /\ mutex = "free"
    /\ handle = "None"
    /\ chan = <<>>
    /\ cpc = "idle"
    /\ wpc = "idle"
    /\ result = "none"
    /\ counter = 0
    /\ prog = <<>>
    /\ unwind = <<>>
    /\ ip = 0
    /\ start = array
    /\ last = NoMessage
    /\ done = 0
    /\ gate = "open"
    /\ callKill = FALSE
    /\ lateOps = 0
    /\ runs = 0
    /\ orphans = 0 /\ syncLock = SortLock_new
    /\ failed = "none"
    /\ ret = "unit"
    /\ calls = NoCalls

Init == InitSized(1..MaxN)

\* The worker thread exists and has not terminated
WorkerLive == wpc \in {"call", "recv", "lock", "op", "returned"}

\* a panic that is caught: the controller goes on calling the Sorter
Panic_caught(name) ==
    /\ cpc' = "idle"
    /\ failed' = name

\* a panic of the controller thread inside method `name`
Panic(name) ==
    /\ cpc' = "panicked"
    /\ failed' = name

\* an alive() that reports no worker and forgets the handle, whatever the thread does
alive_forgetful(h) == "None"

\* an alive() that never clears the handle
alive_sticky(h) == h

\* an alive() for which a thread whose closure has returned is already finished
alive_early(h) == IF h = "Some" /\ wpc \in {"returned", "finished"} THEN "None" ELSE h

\* Sorter::alive: the handle after the lazy clearing, given the current one
alive(h) == IF h = "Some" /\ wpc = "finished" THEN "None" ELSE h

\* Sender::send: the channel after sending msg
send(q, msg) == Append(q, msg)

\* an ArrayLock created with one operation granted
ArrayLock_new_granted == [array_lock |-> "None", counter |-> 1]

\* ArrayLock::new: no guard held, counter: 0
ArrayLock_new == [array_lock |-> "None", counter |-> 0]

\* Sorter::start_sort
start_sort ==
    /\ cpc = "idle"
    /\ IF alive(handle) = "Some"
       THEN /\ Panic("start_sort")
            /\ UNCHANGED <<handle, chan, wpc, result, counter, prog, unwind,
                           ip, start, histVars, runs, orphans, syncLock, calls>>
       ELSE /\ mutex = "free"
            /\ runs < MaxRuns
            /\ handle' = "Some"
            /\ chan' = <<>>
            /\ wpc' = "call"
            /\ result' = "none"
            /\ counter' = ArrayLock_new.counter
            /\ prog' = Run(sort, array, -1).ops
            /\ unwind' = [k \in 1..Len(prog') + 1 |->
                              Run(sort, array, k - 1).late]
            /\ ip' = 0
            /\ start' = array
            /\ last' = NoMessage
            /\ done' = 0
            /\ gate' = "open"
            /\ callKill' = FALSE
            /\ lateOps' = 0
            /\ runs' = runs + 1
            /\ orphans' = IF WorkerLive THEN orphans + 1 ELSE orphans
            /\ syncLock' = syncLock
            /\ UNCHANGED <<cpc, failed>>
    /\ UNCHANGED <<sort, array, mutex, ret, calls>>

\* The first start_sort on a Sorter
StartSort ==
    /\ runs = 0
    /\ start_sort

\* a set_sort without its assertion
set_sort_unchecked(s) ==
    /\ cpc = "idle"
    /\ sort' = s
    /\ UNCHANGED <<array, mutex, handle, chan, cpc, wpc, result, counter,
                   prog, unwind, ip, start, histVars, callVars>>

\* Sorter::set_sort
set_sort(s) ==
    /\ cpc = "idle"
    /\ IF alive(handle) = "Some"
       THEN /\ Panic("set_sort")
            /\ UNCHANGED <<sort, handle>>
       ELSE /\ sort' = s
            /\ handle' = alive(handle)
            /\ UNCHANGED <<cpc, failed>>
    /\ UNCHANGED <<array, mutex, chan, wpc, result, counter,
                   prog, unwind, ip, start, histVars, runs, orphans, syncLock, ret, calls>>

\* Sorter::alive called by the controller
alive_call ==
    /\ cpc = "idle"
    /\ handle' = alive(handle)
    /\ ret' = IF handle' = "Some" THEN "true" ELSE "false"
    /\ UNCHANGED <<sort, array, mutex, chan, cpc, wpc, result, counter,
                   prog, unwind, ip, start, histVars, runs, orphans, syncLock, failed, calls>>

\* Sorter::alive polled when the thread has finished: the handle is cleared
Alive ==
    /\ handle = "Some" /\ wpc = "finished"
    /\ alive_call

\* check_alive(..).sender.send(msg).unwrap() in method `name`: the assertion
\* fails when no worker is alive, the unwrap when the Receiver is gone
SendChecked(msg, name) ==
    IF alive(handle) = "Some" /\ ReceiverAlive
    THEN /\ Len(chan) < MaxQueue
         /\ chan' = send(chan, msg)
         /\ handle' = handle
         /\ cpc' = "idle"
         /\ failed' = failed
    ELSE /\ chan' = chan
         /\ handle' = alive(handle)
         /\ Panic(name)

\* Sorter::step
Step ==
    /\ cpc = "idle"
    /\ SendChecked(StepMsg, "step")
    /\ UNCHANGED <<sort, array, mutex, wpc, result, counter,
                   prog, unwind, ip, start, histVars, runs, orphans, syncLock, ret, calls>>

\* Sorter::tick, first half: self.size() takes the array mutex
TickSize ==
    /\ cpc = "idle"
    /\ mutex = "free"
    /\ cpc' = "tick"
    /\ UNCHANGED <<sort, array, mutex, handle, chan, wpc, result, counter,
                   prog, unwind, ip, start, histVars, callVars>>

\* a tick that sends the count as computed, without the lower bound of 1
cmp_max_second(a, b) == b

\* cmp::max
cmp_max(a, b) == IF a >= b THEN a ELSE b

\* Sorter::tick, second half: Tick(cmp::max(1, speed), Instant::now()); speed,
\* the product of the speed fraction and calculate_max_ticks(size) cut to an
\* integer, is any count from 0 on
TickSend ==
    /\ cpc = "tick"
    /\ \E speed \in 0..MaxTick : SendChecked(Tick(cmp_max(1, speed)), "tick")
    /\ UNCHANGED <<sort, array, mutex, wpc, result, counter,
                   prog, unwind, ip, start, histVars, runs, orphans, syncLock, ret, calls>>

\* Sorter::kill_sort up to the send
KillSort ==
    /\ cpc = "idle"
    /\ handle = "Some"
    /\ IF alive(handle) = "Some"
       THEN IF ReceiverAlive
            THEN /\ chan' = send(chan, Kill)
                 /\ cpc' = "join"
                 /\ failed' = failed
            ELSE /\ chan' = chan
                 /\ Panic("kill_sort")
       ELSE /\ chan' = chan
            /\ cpc' = "idle"
            /\ failed' = failed
    /\ handle' = "None"
    /\ UNCHANGED <<sort, array, mutex, wpc, result, counter,
                   prog, unwind, ip, start, histVars, runs, orphans, syncLock, ret, calls>>

\* Sorter::kill_sort: handle.thread.join().unwrap().unwrap_or_default()
KillJoin ==
    /\ cpc = "join"
    /\ wpc = "finished"
    /\ cpc' = "idle"
    /\ UNCHANGED <<sort, array, mutex, handle, chan, wpc, result, counter,
                   prog, unwind, ip, start, histVars, callVars>>

\* The Sorter is dropped while a worker runs: the Sender goes, no Kill is sent
DropSorter ==
    /\ cpc = "idle"
    /\ handle = "Some"
    /\ handle' = "None"
    /\ cpc' = "dropped"
    /\ UNCHANGED <<sort, array, mutex, chan, wpc, result, counter,
                   prog, unwind, ip, start, histVars, callVars>>

\* the gate without the test `this.counter == 0`
NeedRecv_timeout_only(c, late) ==
    c % TIME_OUT_CHECK = 0 /\ c # 0 /\ late

\* the gate polling on every elapsed timeout, whatever the counter
NeedRecv_any_timeout(c, late) ==
    c = 0 \/ late

\* perform_step: the condition under which the gate consults the channel;
\* late is this.instant.elapsed() > crate::DELAY_TIME, a reading of the wall
\* clock that can come out either way at every call
NeedRecv(c, late) ==
    c = 0 \/ (c % TIME_OUT_CHECK = 0 /\ late)

\* a recv that waits for a message even when every Sender is gone
RecvReady_message_only(q, senderAlive) == q # <<>>

\* Receiver::recv returns: a message waits, or every Sender is gone
RecvReady(q, senderAlive) == q # <<>> \/ ~senderAlive

\* a recv handing out the newest message first
recv_newest(q) == IF q # <<>> THEN q[Len(q)] ELSE Kill

\* this.receiver.recv().unwrap_or(Message::Kill)
recv(q) == IF q # <<>> THEN Head(q) ELSE Kill

\* a `match` in which Step grants two operations
Received_step_two(msg, c) ==
    CASE msg.kind = "Kill" -> [err |-> TRUE,  counter |-> c]
      [] msg.kind = "Step" -> [err |-> FALSE, counter |-> 2]
      [] msg.kind = "Tick" -> [err |-> FALSE, counter |-> msg.count]

\* a `match` in which Kill is taken for a Step
Received_kill_ignored(msg, c) ==
    CASE msg.kind = "Kill" -> [err |-> FALSE, counter |-> 1]
      [] msg.kind = "Step" -> [err |-> FALSE, counter |-> 1]
      [] msg.kind = "Tick" -> [err |-> FALSE, counter |-> msg.count]

\* perform_step: `match` on the message; what becomes of the counter and
\* whether the call returns Err(())
Received(msg, c) ==
    CASE msg.kind = "Kill" -> [err |-> TRUE,  counter |-> c]
      [] msg.kind = "Step" -> [err |-> FALSE, counter |-> 1]
      [] msg.kind = "Tick" -> [err |-> FALSE, counter |-> msg.count]

\* a return that leaks the guard: the mutex stays locked
WorkerReturnOk_holding ==
    /\ wpc = "call"
    /\ ip = Len(prog)
    /\ wpc' = "returned"
    /\ result' = "Ok"
    /\ UNCHANGED <<sort, array, mutex, handle, chan, cpc, counter,
                   prog, unwind, ip, start, histVars, callVars>>

\* The algorithm has no gated call left: Sort::sort returns Ok(()), the
\* ArrayLock is dropped (guard and Receiver with it)
WorkerReturnOk ==
    /\ wpc = "call"
    /\ ip = Len(prog)
    /\ wpc' = "returned"
    /\ result' = "Ok"
    /\ mutex' = "free"
    /\ UNCHANGED <<sort, array, handle, chan, cpc, counter,
                   prog, unwind, ip, start, histVars, callVars>>

\* a gate that goes to recv() with the guard still held
WorkerGate_holding ==
    /\ wpc = "call"
    /\ ip < Len(prog)
    /\ \E late \in BOOLEAN : NeedRecv(counter, late)
    /\ wpc' = "recv"
    /\ callKill' = KillSent
    /\ UNCHANGED <<sort, array, mutex, handle, chan, cpc, result, counter,
                   prog, unwind, ip, start, last, done, gate, lateOps,
                   callVars>>

\* perform_step, condition true: this.array_lock = None, then recv()
WorkerGate ==
    /\ wpc = "call"
    /\ ip < Len(prog)
    /\ \E late \in BOOLEAN : NeedRecv(counter, late)
    /\ mutex' = "free"
    /\ wpc' = "recv"
    /\ callKill' = KillSent
    /\ UNCHANGED <<sort, array, handle, chan, cpc, result, counter,
                   prog, unwind, ip, start, last, done, gate, lateOps,
                   callVars>>

\* perform_step: recv() returns and the message is matched.  On Err the
\* algorithm unwinds and Sort::sort returns.
WorkerRecv ==
    /\ wpc = "recv"
    /\ RecvReady(chan, SenderAlive)
    /\ LET msg == recv(chan)
           r   == Received(msg, counter)
       IN /\ chan' = IF chan # <<>> THEN Tail(chan) ELSE chan
          /\ counter' = r.counter
          /\ IF r.err
             THEN /\ wpc' = "returned"
                  /\ result' = "Err"
                  /\ lateOps' = unwind[ip + 1]
                  /\ gate' = IF chan # <<>> THEN "kill" ELSE "disconnected"
                  /\ UNCHANGED <<array, last, done>>
             ELSE /\ wpc' = "lock"
                  /\ last' = msg
                  /\ done' = 0
                  /\ UNCHANGED <<result, array, lateOps, gate>>
    /\ UNCHANGED <<sort, mutex, handle, cpc, prog, unwind, ip, start, callKill,
                   callVars>>

\* perform_step: this.array_state.lock()
WorkerLock ==
    /\ wpc = "lock"
    /\ mutex = "free"
    /\ mutex' = "worker"
    /\ wpc' = "op"
    /\ UNCHANGED <<sort, array, handle, chan, cpc, result, counter,
                   prog, unwind, ip, start, histVars, callVars>>

\* perform_step: this.counter -= 1; Ok(step(array_lock))
WorkerOp ==
    /\ \/ wpc = "op"
       \/ wpc = "call" /\ ip < Len(prog)
                       /\ \E late \in BOOLEAN : ~NeedRecv(counter, late)
    /\ counter' = counter - 1
    /\ array' = ApplyOp(array, prog[ip + 1]).s
    /\ calls' = Noted(calls, prog[ip + 1])
    /\ ip' = ip + 1
    /\ done' = done + 1
    /\ callKill' = IF wpc = "call" THEN KillSent ELSE callKill
    /\ wpc' = "call"
    /\ UNCHANGED <<sort, mutex, handle, chan, cpc, result,
                   prog, unwind, start, last, gate, lateOps,
                   runs, orphans, syncLock, failed, ret>>

\* The thread's closure has returned: is_finished() becomes true
WorkerExit ==
    /\ wpc = "returned"
    /\ wpc' = "finished"
    /\ UNCHANGED <<sort, array, mutex, handle, chan, cpc, result, counter,
                   prog, unwind, ip, start, histVars, callVars>>

Controller ==
    \/ StartSort \/ Alive \/ Step \/ TickSize \/ TickSend
    \/ KillSort \/ KillJoin \/ DropSorter

Worker ==
    \/ WorkerReturnOk \/ WorkerGate \/ WorkerRecv \/ WorkerLock
    \/ WorkerOp \/ WorkerExit

Next == Controller \/ Worker

Spec == Init /\ [][Next]_vars

\* The worker thread is scheduled; a join returns once the thread finished
FairSpec == Spec /\ WF_vars(Worker) /\ WF_vars(KillJoin)

\* Runs on larger arrays, stepped and killed by the controller
SortInit == InitSized(1..MaxLen)

SortNext == StartSort \/ Step \/ KillSort \/ KillJoin \/ Worker

SortSpec == SortInit /\ [][SortNext]_vars

\* The life of one Sorter over several sorts: Sorter::new leaves the default
\* Sort selected; the controller selects among LifeSorts, starts, steps and
\* kills sorts and polls alive()
LifeSorts == {"BubbleSort", "InsertionSort"}

LifeInit ==
    /\ InitSized(1..MaxN)
    /\ sort = "BubbleSort"

SetSort == \E s \in LifeSorts : set_sort(s)

LifeNext ==
    \/ start_sort \/ SetSort \/ alive_call \/ Step
    \/ KillSort \/ KillJoin \/ Worker

LifeSpec == LifeInit /\ [][LifeNext]_vars

\* The accessors of ArrayState called on an array that no worker holds, with
\* indices up to one past the end and values of the array's range, until the
\* access counters reach MaxOps
Indices(s) == 0..Len(s.numbers) - 1
Arguments(s) == 0..Len(s.numbers)
Values(s) == 1..Len(s.numbers)

ArrayInit ==
    /\ InitSized(1..MaxLen)
    /\ sort = "BubbleSort"

\* the accessor call o, that leaves the array s and hands back r
Call(s, r, o) ==
    /\ cpc = "idle"
    /\ wpc = "idle"
    /\ array.reads + array.writes < MaxOps
    /\ array' = s
    /\ ret' = r
    /\ calls' = Noted(calls, o)
    /\ IF r = "panic" THEN Panic(o.op) ELSE UNCHANGED <<cpc, failed>>
    /\ UNCHANGED <<sort, mutex, handle, chan, wpc, result, counter,
                   prog, unwind, ip, start, histVars, runs, orphans, syncLock>>

CmpTwoAt(a, b) ==
    Call(ArrayState_cmp_two(array, a, b).s, ArrayState_cmp_two(array, a, b).ret,
         [op |-> "cmp_two", a |-> a, b |-> b])
CmpAt(index, value) ==
    Call(ArrayState_cmp(array, index, value).s,
         ArrayState_cmp(array, index, value).ret,
         [op |-> "cmp", a |-> index, b |-> value])
SwapAt(a, b) ==
    Call(ArrayState_swap(array, a, b).s, ArrayState_swap(array, a, b).ret,
         [op |-> "swap", a |-> a, b |-> b])
\* the usize handed back by get is kept as its decimal string
GetAt(index) ==
    Call(ArrayState_get(array, index).s,
         IF InRange(array, index)
         THEN ToString(ArrayState_get(array, index).ret)
         ELSE ArrayState_get(array, index).ret,
         [op |-> "get", a |-> index, b |-> 0])
SetAt(index, value) ==
    Call(ArrayState_set(array, index, value).s,
         ArrayState_set(array, index, value).ret,
         [op |-> "set", a |-> index, b |-> value])

CmpTwo == \E a, b \in Arguments(array) : CmpTwoAt(a, b)
Cmp == \E index \in Arguments(array) : \E value \in Values(array) : CmpAt(index, value)
Swap == \E a, b \in Arguments(array) : SwapAt(a, b)
Get == \E index \in Arguments(array) : GetAt(index)
Set == \E index \in Arguments(array) : \E value \in Values(array) : SetAt(index, value)

\* Sorter::operate_array: lock the mutex, apply the method `name`, unlock
operate_array(s, name) ==
    /\ cpc = "idle"
    /\ mutex = "free"
    /\ array' = s
    /\ ret' = "unit"
    /\ calls' = NotedBulk(calls, name)
    /\ UNCHANGED <<sort, mutex, handle, chan, cpc, wpc, result, counter,
                   prog, unwind, ip, start, histVars, runs, orphans, syncLock, failed>>

InitializeTo(size) == operate_array(ArrayState_initialize(array, size), "initialize")
ShuffleBy(p) == operate_array(ArrayState_shuffle(array, p), "shuffle")

Initialize == \E size \in 1..MaxN : InitializeTo(size)
Shuffle == \E p \in Perms(Len(array.numbers)) : ShuffleBy(p)
Reverse == operate_array(ArrayState_reverse(array), "reverse")
ClearStep == operate_array(ArrayState_clear_step(array), "clear_step")
ResetStats == operate_array(ArrayState_reset_stats(array), "reset_stats")

ArrayNext == CmpTwo \/ Cmp \/ Swap \/ Get \/ Set

ArraySpec == ArrayInit /\ [][ArrayNext]_vars

\* The accessors together with the operations the controller makes through
\* Sorter::operate_array, on arrays of up to MaxN values
OpsInit ==
    /\ InitSized(1..MaxN)
    /\ sort = "BubbleSort"

OpsNext ==
    \/ CmpTwo \/ Cmp \/ Swap \/ Get \/ Set
    \/ Initialize \/ Shuffle \/ Reverse \/ ClearStep \/ ResetStats

OpsSpec == OpsInit /\ [][OpsNext]_vars

\* Runs with unbounded budget on arrays whose values are any of 1..=N, not
\* only permutations.  Fuel bounds the gated calls followed: every run that
\* returns on such an array of up to three values makes fewer than 20.
Fuel == 32

TermInit ==
    /\ sort \in SortValues
    /\ \E n \in 1..MaxLen : \E a \in [1..n -> 1..n] :
           array = [ArrayState_new(n) EXCEPT !.numbers = a]
    /\ mutex = "free" /\ handle = "None" /\ chan = <<>>
    /\ cpc = "idle" /\ wpc = "idle" /\ result = "none" /\ counter = 0
    /\ prog = <<>> /\ unwind = <<>> /\ ip = 0 /\ start = array
    /\ last = NoMessage /\ done = 0 /\ gate = "open"
    /\ callKill = FALSE /\ lateOps = 0
    /\ runs = 0 /\ orphans = 0 /\ syncLock = SortLock_new /\ failed = "none" /\ ret = "unit"
    /\ calls = NoCalls

\* Sorter::start_sort; the gated calls of the run are followed up to Fuel
TermStart ==
    /\ cpc = "idle" /\ handle = "None" /\ wpc = "idle"
    /\ mutex = "free"
    /\ handle' = "Some"
    /\ wpc' = "call"
    /\ counter' = ArrayLock_new.counter
    /\ prog' = Run(sort, array, Fuel).ops
    /\ unwind' = [k \in 1..Len(prog') + 1 |-> 0]
    /\ start' = array
    /\ runs' = runs + 1
    /\ UNCHANGED <<sort, array, mutex, chan, cpc, result, ip, histVars,
                   orphans, syncLock, failed, ret, calls>>

\* The worker with budget for every gated call: Sort::sort runs until it
\* returns or has made Fuel gated calls
WorkerRunUnbounded ==
    /\ wpc = "call" /\ ip = 0 /\ result = "none"
    /\ LET r == Run(sort, start, Fuel)
       IN /\ array' = r.arr
          /\ ip' = Len(r.ops)
          /\ IF r.res = "Ok"
             THEN wpc' = "returned" /\ result' = "Ok"
             ELSE wpc' = "op" /\ result' = result
    /\ UNCHANGED <<sort, mutex, handle, chan, cpc, counter, prog, unwind,
                   start, histVars, callVars>>

TermNext == TermStart \/ WorkerRunUnbounded \/ WorkerExit \/ Alive

TermSpec == TermInit /\ [][TermNext]_vars

\* A stepped run while the controller calls initialize, shuffle and reverse
\* through Sorter::operate_array.  The gated calls in prog are those of the
\* run on the array it started on; the next one is the call the algorithm
\* makes as long as every call so far returned what it returns in prog.

\* The array after the first k gated calls of prog, were it left alone
RECURSIVE ArrayAt(_)
ArrayAt(k) == IF k = 0 THEN start ELSE ApplyOp(ArrayAt(k - 1), prog[k]).s

\* The accessor call o indexes past the end of s.numbers
OutOfRange(s, o) ==
    \E k \in 1..Len(ArgIndices(o)) : ~InRange(s, ArgIndices(o)[k])

\* perform_step: this.counter -= 1; Ok(step(array_lock)) on an array the
\* controller may have changed.  An index out of range panics the worker
\* thread with the guard held (the mutex is poisoned); after a call that
\* returned something else than in prog the algorithm leaves prog and is
\* not followed further ("astray").
WorkerOpEdited ==
    /\ \/ wpc = "op"
       \/ wpc = "call" /\ ip < Len(prog)
                       /\ \E late \in BOOLEAN : ~NeedRecv(counter, late)
    /\ LET r == ApplyOp(array, prog[ip + 1])
       IN /\ array' = r.s
          /\ IF OutOfRange(array, prog[ip + 1])
             THEN wpc' = "returned" /\ result' = "panic" /\ mutex' = "poisoned"
             ELSE /\ wpc' = IF r.ret = ApplyOp(ArrayAt(ip), prog[ip + 1]).ret
                            THEN "call" ELSE "astray"
                  /\ UNCHANGED <<result, mutex>>
    /\ counter' = counter - 1
    /\ calls' = Noted(calls, prog[ip + 1])
    /\ ip' = ip + 1
    /\ done' = done + 1
    /\ callKill' = IF wpc = "call" THEN KillSent ELSE callKill
    /\ UNCHANGED <<sort, handle, chan, cpc, prog, unwind, start, last, gate,
                   lateOps, runs, orphans, syncLock, failed, ret>>

EditNext ==
    \/ StartSort \/ Step \/ Initialize \/ Shuffle \/ Reverse
    \/ WorkerReturnOk \/ WorkerGate \/ WorkerRecv \/ WorkerLock
    \/ WorkerOpEdited \/ WorkerExit

EditSpec == Init /\ [][EditNext]_vars

\* The mutex-based Sorter of src/src/sort.rs: controller and worker share
\* one Mutex<SortLock>; every lock().unwrap() .. unlock is one step.
MaxSpeed == 2

\* the gated call o has been applied to the array
SyncNoted(c, o) ==
    [cmps   |-> c.cmps + DeclaredComparisons(o.op),
     incr   |-> c.incr + DeclaredAccesses(o.op),
     lastOp |-> [op |-> o.op, indices |-> ArgIndices(o)]]

\* Sorter::start_sort (sort.rs)
Sync_start_sort ==
    /\ cpc = "idle"
    /\ IF alive(handle) = "Some"
       THEN /\ Panic("start_sort")
            /\ UNCHANGED <<handle, wpc, result, prog, ip, start, syncLock, runs>>
       ELSE /\ runs < MaxRuns
            /\ syncLock' = [syncLock EXCEPT !.playing = "false", !.steps = 0]
            /\ handle' = "Some"
            /\ wpc' = "call"
            /\ result' = "none"
            /\ prog' = SyncRun(sort, array).ops
            /\ ip' = 0
            /\ start' = array
            /\ runs' = runs + 1
            /\ UNCHANGED <<cpc, failed>>
    /\ UNCHANGED <<sort, array, mutex, chan, counter, unwind, histVars,
                   orphans, ret, calls>>

\* a Sorter method that only writes fields of the SortLock
Sync_write(l) ==
    /\ cpc = "idle"
    /\ syncLock' = l
    /\ UNCHANGED <<sort, array, mutex, handle, chan, cpc, wpc, result, counter,
                   prog, unwind, ip, start, histVars, runs, orphans, failed,
                   ret, calls>>

\* Sorter::step (sort.rs)
Sync_step == Sync_write([syncLock EXCEPT !.steps = 1])

\* Sorter::set_playing
Sync_set_playing ==
    \E playing \in {"false", "true"} :
        Sync_write([syncLock EXCEPT !.playing = playing])

\* Sorter::set_speed
Sync_set_speed ==
    \E speed \in 1..MaxSpeed : Sync_write([syncLock EXCEPT !.speed = speed])

\* Sorter::reset_stats (sort.rs)
Sync_reset_stats ==
    /\ cpc = "idle"
    /\ syncLock' = [syncLock EXCEPT !.comparisons = 0, !.accesses = 0]
    /\ calls' = [calls EXCEPT !.cmps = 0, !.incr = 0]
    /\ UNCHANGED <<sort, array, mutex, handle, chan, cpc, wpc, result, counter,
                   prog, unwind, ip, start, histVars, runs, orphans, failed,
                   ret>>

\* Sorter::kill_sort (sort.rs) up to the join
Sync_kill_sort ==
    /\ cpc = "idle"
    /\ syncLock' = [syncLock EXCEPT !.playing = "None"]
    /\ cpc' = IF alive(handle) = "Some" THEN "join" ELSE "idle"
    /\ handle' = "None"
    /\ UNCHANGED <<sort, array, mutex, chan, wpc, result, counter,
                   prog, unwind, ip, start, histVars, runs, orphans, failed,
                   ret, calls>>

\* Sort::perform_step (sort.rs), one turn of its loop under the lock:
\* cancelled, it panics; with steps left it applies the operation; without,
\* it refills the steps when playing, and sleeps
Sync_perform_step ==
    /\ wpc = "call" /\ ip < Len(prog)
    /\ IF syncLock.playing = "None"
       THEN /\ wpc' = "returned"
            /\ result' = "panic"
            /\ UNCHANGED <<array, ip, syncLock, calls>>
       ELSE IF syncLock.steps > 0
       THEN /\ syncLock' = [syncLock EXCEPT !.steps = @ - 1]
            /\ array' = ApplyOp(array, prog[ip + 1]).s
            /\ ip' = ip + 1
            /\ calls' = SyncNoted(calls, prog[ip + 1])
            /\ wpc' = "add_comparisons"
            /\ result' = result
       ELSE /\ syncLock.playing = "true"
            /\ syncLock' = [syncLock EXCEPT
                               !.steps = cmp_max(1, calculate_ticks(sort, syncLock.speed))]
            /\ UNCHANGED <<array, ip, calls, wpc, result>>
    /\ UNCHANGED <<sort, mutex, handle, chan, cpc, counter, prog, unwind,
                   start, histVars, runs, orphans, failed, ret>>

\* wrap_array_op!: Sort::add_comparisons(lock, $c)
Sync_add_comparisons ==
    /\ wpc = "add_comparisons"
    /\ syncLock' = [syncLock EXCEPT
                       !.comparisons = @ + DeclaredComparisons(prog[ip].op)]
    /\ wpc' = "add_accesses"
    /\ UNCHANGED <<sort, array, mutex, handle, chan, cpc, result, counter,
                   prog, unwind, ip, start, histVars, runs, orphans, failed,
                   ret, calls>>

\* wrap_array_op!: Sort::add_accesses(lock, $a)
Sync_add_accesses ==
    /\ wpc = "add_accesses"
    /\ syncLock' = [syncLock EXCEPT
                       !.accesses = @ + DeclaredAccesses(prog[ip].op)]
    /\ wpc' = "call"
    /\ UNCHANGED <<sort, array, mutex, handle, chan, cpc, result, counter,
                   prog, unwind, ip, start, histVars, runs, orphans, failed,
                   ret, calls>>

\* Sort::sort (sort.rs) returns
Sync_return ==
    /\ wpc = "call" /\ ip = Len(prog)
    /\ wpc' = "returned"
    /\ result' = "Ok"
    /\ UNCHANGED <<sort, array, mutex, handle, chan, cpc, counter, prog, unwind,
                   ip, start, histVars, callVars>>

SyncWorker ==
    \/ Sync_perform_step \/ Sync_add_comparisons \/ Sync_add_accesses
    \/ Sync_return \/ WorkerExit

\* Stepped and played runs of an algorithm that compares and swaps and of
\* one that reads and writes
SyncInit ==
    /\ InitSized(1..MaxN)
    /\ sort \in {"BubbleSort", "InsertionSort"}

SyncNext ==
    \/ Sync_start_sort \/ Sync_step \/ Sync_set_playing \/ Sync_set_speed
    \/ Sync_reset_stats \/ Sync_kill_sort \/ KillJoin
    \/ SyncWorker

SyncSpec == SyncInit /\ [][SyncNext]_vars

\* Played runs of every Sort variant of sort.rs on arrays of up to MaxLen values
SyncSortNext == Sync_start_sort \/ Sync_set_playing \/ SyncWorker

SyncSortSpec == SortInit /\ [][SyncSortNext]_vars

\* -------------------------------------------------------------------------
\* Properties
\* -------------------------------------------------------------------------
IsSorted(a) == \A i \in 1..Len(a) - 1 : a[i] <= a[i + 1]

Count(a, v) == Cardinality({i \in 1..Len(a) : a[i] = v})
SameMultiset(a, b) ==
    /\ Len(a) = Len(b)
    /\ \A i \in 1..Len(a) : Count(a, a[i]) = Count(b, a[i])

\* The budget a message grants
Grant(msg) ==
    CASE msg.kind = "Step" -> 1
      [] msg.kind = "Tick" -> msg.count
      [] OTHER -> 0

\* The budget still to come: the counter and the messages queued before a Kill
RECURSIVE Budget(_)
Budget(q) ==
    IF q = <<>> \/ Head(q).kind = "Kill" THEN 0
    ELSE Grant(Head(q)) + Budget(Tail(q))

Pot == counter + Budget(chan)

\* C1: under SortSpec, a run that completes returns Ok with the array sorted,
\* i.e. equal to [1, .., N]; Err is returned only when the gate cancelled.
C1_SortedOnCompletion ==
    /\ result = "Ok" =>
           /\ ip = Len(prog)
           /\ IsSorted(array.numbers)
           /\ array.numbers = Iota(Len(start.numbers))
    /\ result = "Err" => gate # "open"

\* C1 witness: a run on an unsorted array of three or more values returned Ok
C1_Witness ==
    /\ result = "Ok" /\ wpc = "finished"
    /\ Len(start.numbers) >= 3
    /\ ~IsSorted(start.numbers)
    /\ ip >= 3

C3_BudgetNeverExceeded ==
    [][/\ ip' # ip => counter >= 1 /\ counter' = counter - 1
       /\ wpc = "call" /\ counter = 0 => ip' = ip /\ wpc' \in {"call", "recv", "returned"}
       /\ wpc = "recv" /\ wpc' # "recv" => chan # <<>> \/ ~SenderAlive
       /\ done' <= Grant(last')]_vars

\* C3 witness: a grant of two or more is used up and the next call must block
C3_Witness ==
    /\ wpc = "call" /\ ip < Len(prog)
    /\ counter = 0
    /\ last.count >= 2 /\ done = last.count

\* C4: under SortSpec, from the step in which the gate receives Kill on, the
\* array is not touched: the call returns Err, no gated call is attempted
\* afterwards and no operation is performed.
C4_NoAccessAfterKill ==
    [][gate' # "open" =>
          /\ array' = array
          /\ ip' = ip
          /\ result' = "Err"
          /\ lateOps' = 0]_vars

\* C4 witness: a run was cancelled in the middle and its thread has finished
C4_Witness ==
    /\ gate = "kill" /\ wpc = "finished"
    /\ ip >= 1 /\ ip < Len(prog)

\* C5 as stated: a gated call that begins after Kill was sent performs no
\* array operation.
C5_KillAtNextCall_Claimed ==
    [][(KillSent /\ wpc = "call") \/ (wpc \in {"recv", "lock", "op"} /\ callKill)
          => ip' = ip]_vars

\* C6: under FairSpec, once Kill is sent the join returns; until then the
\* budget still to come never grows and every operation takes one off it.
C6_KillTerminates ==
    /\ (cpc = "join") ~> (cpc = "idle" /\ wpc = "finished")
    /\ [][KillSent => Pot' <= Pot /\ (ip' # ip => Pot' = Pot - 1)]_vars

\* C6 witness: the worker was killed while it ran and the join can return
C6_Witness ==
    /\ cpc = "join" /\ wpc = "finished"
    /\ result = "Err"
    /\ ip >= 1

\* C7 as stated: under SortSpec, a cancelled run leaves the multiset of
\* values it started with.
C7_CancelKeepsValues_Claimed ==
    result = "Err" => SameMultiset(array.numbers, start.numbers)

\* C8: under FairSpec, once the Sorter is dropped the worker finishes; the
\* gated call that finds the channel disconnected returns Err and performs
\* no operation.
C8_DisconnectTerminates ==
    /\ (cpc = "dropped") ~> (wpc = "finished")
    /\ [][gate' = "disconnected" =>
             array' = array /\ ip' = ip /\ result' = "Err"]_vars

\* C8 witness: a worker cancelled by the disconnection in mid-run
C8_Witness ==
    /\ gate = "disconnected" /\ wpc = "finished"
    /\ cpc = "dropped"
    /\ ip < Len(prog)

C10_FifoNoLoss ==
    [][/\ wpc = "recv" /\ wpc' # "recv" /\ chan # <<>> =>
              /\ chan' = Tail(chan)
              /\ IF Head(chan).kind = "Kill" THEN result' = "Err"
                 ELSE last' = Head(chan)
       /\ chan' # chan /\ wpc # "idle" =>
              \/ wpc = "recv" /\ wpc' # "recv" /\ chan' = Tail(chan)
              \/ Len(chan') = Len(chan) + 1 /\ SubSeq(chan', 1, Len(chan)) = chan
       /\ last.kind = "Step" /\ ip' # ip => done = 0 /\ done' = 1 /\ counter' = 0
       /\ last.kind = "Step" /\ wpc' = "recv" => done' = 1]_vars

\* C10 witness: of two Steps sent in succession the first has been performed
\* and the second waits
C10_Witness ==
    /\ last.kind = "Step" /\ done = 1
    /\ wpc = "call"
    /\ chan # <<>> /\ Head(chan).kind = "Step"

\* Worker threads that have not terminated
LiveWorkers == orphans + (IF WorkerLive THEN 1 ELSE 0)

\* C11: a start_sort called while a worker thread exists that has not
\* finished panics and spawns nothing (no thread, no change of the handle or
\* of the running sort); called when there is none, it spawns exactly one
\* worker, at its first gated call, and stores the handle.
C11_StartSortContract ==
    [][start_sort =>
         IF WorkerLive
         THEN /\ failed' = "start_sort" /\ cpc' = "panicked"
              /\ runs' = runs /\ LiveWorkers' = LiveWorkers
              /\ UNCHANGED <<handle, wpc, ip, prog, chan>>
         ELSE /\ failed' = "none" /\ cpc' = "idle"
              /\ runs' = runs + 1 /\ LiveWorkers' = LiveWorkers + 1
              /\ handle' = "Some" /\ wpc' = "call" /\ ip' = 0]_vars

\* a second sort was started after the first one ended, and a start_sort
\* called while it ran has panicked
C11_Witness ==
    /\ runs = 2
    /\ failed = "start_sort"
    /\ WorkerLive

\* C12: at most one worker thread that has not terminated exists
C12_AtMostOneWorker == LiveWorkers <= 1

\* the second worker of a Sorter runs, the first has terminated
C12_Witness ==
    /\ runs = 2
    /\ wpc = "op"
    /\ LiveWorkers = 1

\* C13: kill_sort returns normally in every reachable state: it never
\* panics, and once it has returned the handle is None and no worker thread
\* is left that has not terminated.
C13_KillReturns_Claimed ==
    /\ failed # "kill_sort"
    /\ (cpc = "idle" /\ handle = "None") => ~WorkerLive

\* C14: the selection changes only while no worker thread is unfinished: a
\* set_sort called while one is panics and leaves the selection as it was,
\* and whenever a worker starts, or the selection, the array it started on
\* or its gated calls change under a worker, its gated calls are those of
\* the algorithm selected: the one that was selected when start_sort ran.
C14_SelectionFixedWhileAlive ==
    /\ [][(WorkerLive' /\ (~WorkerLive \/ <<sort, start, prog>>' # <<sort, start, prog>>))
              => prog' = Run(sort', start', -1).ops]_vars
    /\ [][sort' # sort => ~WorkerLive /\ ~WorkerLive']_vars
    /\ [][SetSort /\ WorkerLive =>
              failed' = "set_sort" /\ cpc' = "panicked" /\ sort' = sort]_vars

\* InsertionSort was selected between two sorts, and a set_sort called
\* while the second sort ran has panicked
C14_Witness ==
    /\ runs = 2
    /\ sort = "InsertionSort"
    /\ WorkerLive /\ ip > 0
    /\ failed = "set_sort"

\* C15: step() and tick() called while no worker thread is unfinished panic
\* and send nothing; called while one is, step() appends exactly one Step
\* to the channel and tick() exactly one Tick, and neither panics.
C15_StepTickContract_Claimed ==
    [][/\ Step =>
            IF WorkerLive
            THEN chan' = Append(chan, StepMsg) /\ failed' = "none"
            ELSE chan' = chan /\ failed' = "step"
       /\ TickSend =>
            IF WorkerLive
            THEN /\ \E n \in 1..MaxTick : chan' = Append(chan, Tick(n))
                 /\ failed' = "none"
            ELSE chan' = chan /\ failed' = "tick"]_vars

\* C16: every Tick sent carries a count from 1 to the step cap, and the
\* budget of the gate never exceeds the cap.
C16_BudgetCapped_Claimed ==
    /\ \A i \in 1..Len(chan) :
           chan[i].kind = "Tick" => chan[i].count \in 1..StepCap
    /\ counter <= StepCap

\* C17, as claimed: between the calls of the controller the handle is Some
\* exactly when a worker thread exists that has not finished.
C17_HandleIffRunning_Claimed ==
    cpc = "idle" => (handle = "Some" <=> WorkerLive)

\* C17: between the calls of a controller that has not panicked, a worker
\* thread that has not finished has its handle stored, and the handle as
\* alive() leaves it is Some exactly when such a thread exists; a stored
\* handle outlives its thread until the next alive().
C17_HandleAfterPoll ==
    cpc = "idle" =>
        /\ WorkerLive => handle = "Some"
        /\ alive(handle) = "Some" <=> WorkerLive

\* the second worker has finished and its handle is still stored
C17_Witness ==
    /\ cpc = "idle"
    /\ runs = 2
    /\ wpc = "finished"
    /\ handle = "Some"

\* C18: alive() returns true exactly when a handle is stored and its thread
\* has not finished, and then changes nothing; with a finished thread it
\* clears the handle and returns false.  With no handle stored start_sort
\* and set_sort do not panic.  A stored handle is cleared only by alive()
\* finding the thread finished (called directly or inside start_sort,
\* set_sort, step and tick) and by kill_sort.
C18_AliveContract ==
    /\ [][alive_call =>
            /\ ret' = "true" <=> (handle = "Some" /\ wpc # "finished")
            /\ ret' = "true" => handle' = handle
            /\ ret' = "false" => handle' = "None"]_vars
    /\ [][(start_sort \/ SetSort) /\ handle = "None" => failed' = "none"]_vars
    /\ [][handle = "Some" /\ handle' = "None" => wpc = "finished" \/ KillSort]_vars

\* alive() has found the first thread finished and returned false, and a
\* second sort was started after it
C18_Witness ==
    /\ ret = "false"
    /\ runs = 2
    /\ handle = "Some"
    /\ wpc = "call"

\* The step is a call of the accessor op with these indices
Made(op, indices) == calls'.lastOp = [op |-> op, indices |-> indices]

\* What an accessor leaves alone
SameValues == array'.numbers = array.numbers
Counted(c, r, w) ==
    /\ array'.comparisons = array.comparisons + c
    /\ array'.reads = array.reads + r
    /\ array'.writes = array.writes + w

\* C19: for in-range indices cmp_two(a, b) returns the ordering of the value
\* at a against the value at b, records ComparisonTwo(a, b) and counts one
\* comparison and two reads; cmp(index, value) returns the ordering of the
\* value at index against value, records Comparison(index) and counts one
\* comparison and one read.  Neither changes the values or the write counter.
C19_CompareContract ==
    /\ [][\A a, b \in Indices(array) : Made("cmp_two", <<a, b>>) /\ CmpTwoAt(a, b) =>
            /\ ret' = (IF array.numbers[a + 1] < array.numbers[b + 1] THEN "Less"
                       ELSE IF array.numbers[a + 1] > array.numbers[b + 1]
                            THEN "Greater" ELSE "Equal")
            /\ array'.step = <<"ComparisonTwo", a, b>>
            /\ Counted(1, 2, 0)
            /\ SameValues]_vars
    /\ [][\A index \in Indices(array) : \A value \in Values(array) :
          Made("cmp", <<index>>) /\ CmpAt(index, value) =>
            /\ ret' = (IF array.numbers[index + 1] < value THEN "Less"
                       ELSE IF array.numbers[index + 1] > value
                            THEN "Greater" ELSE "Equal")
            /\ array'.step = <<"Comparison", index>>
            /\ Counted(1, 1, 0)
            /\ SameValues]_vars

\* after a cmp that answered, cmp_two of two different indices has answered
\* Greater
C19_Witness ==
    /\ array.step[1] = "ComparisonTwo"
    /\ array.step[2] # array.step[3]
    /\ ret = "Greater"
    /\ array.reads = 3
    /\ array.comparisons = 2

\* C20: swap(a, b) for in-range a and b exchanges the values at a and b and
\* changes no other element, so the multiset of the values and the length
\* stay; it records AccessTwo(a, b), counts two writes and two reads and no
\* comparison.
C20_SwapContract ==
    [][\A a, b \in Indices(array) : Made("swap", <<a, b>>) /\ SwapAt(a, b) =>
        /\ array'.numbers[a + 1] = array.numbers[b + 1]
        /\ array'.numbers[b + 1] = array.numbers[a + 1]
        /\ \A i \in Indices(array) \ {a, b} :
               array'.numbers[i + 1] = array.numbers[i + 1]
        /\ SameMultiset(array'.numbers, array.numbers)
        /\ array'.step = <<"AccessTwo", a, b>>
        /\ Counted(0, 2, 2)]_vars

\* a swap of two different indices has been done on an array holding a
\* duplicate
C20_Witness ==
    /\ array.step[1] = "AccessTwo"
    /\ array.step[2] # array.step[3]
    /\ array.writes = 3
    /\ \E i, j \in 1..Len(array.numbers) :
           i # j /\ array.numbers[i] = array.numbers[j]

\* C21: get(index) returns the value at index, changes no element, records
\* Access(index) and counts one read and nothing else; set(index, value)
\* stores value at index and changes no other element, records Access(index)
\* and counts one write and nothing else.
C21_GetSetContract ==
    /\ [][\A index \in Indices(array) : Made("get", <<index>>) /\ GetAt(index) =>
            /\ ret' = ToString(array.numbers[index + 1])
            /\ SameValues
            /\ array'.step = <<"Access", index>>
            /\ Counted(0, 1, 0)]_vars
    /\ [][\A index \in Indices(array) : \A value \in Values(array) :
          Made("set", <<index>>) /\ SetAt(index, value) =>
            /\ ret' = "unit"
            /\ array'.numbers[index + 1] = value
            /\ Len(array'.numbers) = Len(array.numbers)
            /\ \A i \in Indices(array) \ {index} :
                   array'.numbers[i + 1] = array.numbers[i + 1]
            /\ array'.step = <<"Access", index>>
            /\ Counted(0, 0, 1)]_vars

\* a get has handed back the value a set stored before it, a value the
\* array did not hold at that index at first
C21_Witness ==
    /\ array.step[1] = "Access"
    /\ array.reads = 1
    /\ array.writes = 1
    /\ InRange(array, array.step[2])
    /\ ret = ToString(array.numbers[array.step[2] + 1])
    /\ array.numbers[array.step[2] + 1] # start.numbers[array.step[2] + 1]

\* C22: after any sequence of operations on the array, comparisons() is the
\* number of cmp_two and cmp calls made since the last reset_stats and
\* reads() + writes() is the sum of the increments of the accessor calls
\* made since then; shuffle, reverse and initialize leave the counters.
C22_CountersCountCalls ==
    /\ [](/\ array.comparisons = calls.cmps
          /\ array.reads + array.writes = calls.incr)
    /\ [][/\ calls'.lastOp.op \in {"initialize", "shuffle", "reverse"}
          /\ Initialize \/ Shuffle \/ Reverse
          => Counted(0, 0, 0)]_vars

HasDuplicate(a) == \E i, j \in 1..Len(a) : i # j /\ a[i] = a[j]

\* a set, then reset_stats, then one comparing call, then a shuffle
C22_Witness ==
    /\ HasDuplicate(array.numbers)
    /\ array.writes = 0
    /\ array.comparisons = 1
    /\ array.reads > 0
    /\ calls.lastOp.op = "shuffle"

\* C23: reset_stats sets comparisons, reads and writes to zero and leaves
\* the values, the length and the last step.
C23_ResetStatsContract ==
    [][ResetStats =>
        /\ array'.comparisons = 0
        /\ array'.reads = 0
        /\ array'.writes = 0
        /\ SameValues
        /\ Len(array'.numbers) = Len(array.numbers)
        /\ array'.step = array.step]_vars

\* reset_stats has zeroed the counters after a set: the value stored and
\* the step of the set are still there
C23_Witness ==
    /\ array.comparisons = 0
    /\ array.reads = 0
    /\ array.writes = 0
    /\ array.step[1] = "Access"
    /\ HasDuplicate(array.numbers)
    /\ calls.lastOp.op = "set"

\* C24: initialize(n) yields 1, 2, ..., n; reverse yields the sequence in
\* reverse order, so that reversing twice restores it and 1, 2, 3, 4, 5
\* becomes 5, 4, 3, 2, 1; shuffle yields a permutation of the same multiset
\* of the same length; each of the three sets the last step to None.
C24_BulkContract ==
    /\ [][\A size \in 1..MaxN :
          calls'.lastOp.op = "initialize" /\ InitializeTo(size) =>
            /\ array'.numbers = [i \in 1..size |-> i]
            /\ array'.step = <<"None">>]_vars
    /\ [][calls'.lastOp.op = "reverse" /\ Reverse =>
            /\ Len(array'.numbers) = Len(array.numbers)
            /\ \A i \in 1..Len(array.numbers) :
                   array'.numbers[i] = array.numbers[Len(array.numbers) + 1 - i]
            /\ ArrayState_reverse(array').numbers = array.numbers
            /\ array'.step = <<"None">>]_vars
    /\ [][calls'.lastOp.op = "shuffle" /\ Shuffle =>
            /\ SameMultiset(array'.numbers, array.numbers)
            /\ array'.step = <<"None">>]_vars
    /\ [](/\ ArrayState_initialize(array, 5).numbers = <<1, 2, 3, 4, 5>>
          /\ ArrayState_reverse(ArrayState_initialize(array, 5)).numbers
                 = <<5, 4, 3, 2, 1>>)

\* a reverse has turned an array that is not a palindrome, on which an
\* accessor had been called
C24_Witness ==
    /\ calls.lastOp.op = "reverse"
    /\ array.step = StepNone
    /\ array.reads + array.writes > 0
    /\ ArrayState_reverse(array).numbers # array.numbers

\* The step is a call that fails for good and changes no value
Fatal(name) ==
    /\ ret' = "panic"
    /\ cpc' = "panicked"
    /\ failed' = name
    /\ SameValues

\* C25: every accessor called with an index that is not below size() fails
\* for good, no result is returned and nothing is called after it, and
\* changes no value of the array.
C25_OutOfRangeIsFatal ==
    /\ [][\A a, b \in Arguments(array) :
          /\ ~InRange(array, a) \/ ~InRange(array, b)
          /\ Made("cmp_two", <<a, b>>) /\ CmpTwoAt(a, b)
          => Fatal("cmp_two")]_vars
    /\ [][\A a, b \in Arguments(array) :
          /\ ~InRange(array, a) \/ ~InRange(array, b)
          /\ Made("swap", <<a, b>>) /\ SwapAt(a, b)
          => Fatal("swap")]_vars
    /\ [][\A index \in Arguments(array) : \A value \in Values(array) :
          /\ ~InRange(array, index)
          /\ Made("cmp", <<index>>) /\ CmpAt(index, value)
          => Fatal("cmp")]_vars
    /\ [][\A index \in Arguments(array) : \A value \in Values(array) :
          /\ ~InRange(array, index)
          /\ Made("set", <<index>>) /\ SetAt(index, value)
          => Fatal("set")]_vars
    /\ [][\A index \in Arguments(array) :
          /\ ~InRange(array, index)
          /\ Made("get", <<index>>) /\ GetAt(index)
          => Fatal("get")]_vars
    /\ [][cpc = "panicked" => cpc' = "panicked" /\ array' = array]_vars

\* a swap whose second index is size() has failed after a set had stored a
\* value: the values are those the set left
C25_Witness ==
    /\ cpc = "panicked"
    /\ failed = "swap"
    /\ ret = "panic"
    /\ array.step = <<"AccessTwo", 0, Len(array.numbers)>>
    /\ array.writes = 3
    /\ HasDuplicate(array.numbers)

\* The Step that describes the operation l
Describe(l) ==
    CASE l.op = "cmp_two" -> <<"ComparisonTwo">> \o l.indices
      [] l.op = "cmp"     -> <<"Comparison">> \o l.indices
      [] l.op = "swap"    -> <<"AccessTwo">> \o l.indices
      [] l.op \in {"get", "set"} -> <<"Access">> \o l.indices
      [] l.op \in {"new", "initialize", "shuffle", "reverse", "clear_step"}
                          -> <<"None">>

\* C30: there is one last step and it describes the most recent operation:
\* ComparisonTwo, Comparison, AccessTwo or Access with the indices of the
\* last accessor call, or None when the last operation was initialize,
\* shuffle, reverse or clear_step or the array is as created.
C30_LastStepIsLastOperation ==
    /\ array.step = Describe(calls.lastOp)
    /\ array.step[1] \in {"None", "ComparisonTwo", "Comparison", "AccessTwo", "Access"}

\* clear_step has been called after a comparing call
C30_Witness ==
    /\ calls.lastOp.op = "clear_step"
    /\ array.comparisons = 1
    /\ array.step = StepNone

\* C26: a freshly started worker has budget zero: from start_sort until the
\* worker has received the first Step or Tick no operation is performed and
\* the values, the counters and the last step are those start_sort found.
C26_FreshWorkerWaits ==
    (runs > 0 /\ last = NoMessage) =>
        /\ array = start
        /\ ip = 0
        /\ counter = 0

\* the first Tick is sent and the worker, waiting in recv, has not taken it
C26_Witness ==
    /\ runs = 1
    /\ wpc = "recv"
    /\ last = NoMessage
    /\ chan # <<>>
    /\ Head(chan).kind = "Tick"
    /\ array = start

\* C27, as claimed: the worker holds the mutex for one gated operation at a
\* time: every operation is performed right after the mutex was acquired for
\* it, and between two operations the mutex has been released.
C27_LockPerOperation_Claimed ==
    [][ip' # ip => wpc = "op" /\ mutex = "worker"]_vars

\* C28: the worker never holds the mutex while it waits in the channel
\* receive, with its counter at zero or at the timeout re-check: the mutex
\* is free for the controller.
C28_NoLockWhileReceiving ==
    wpc = "recv" => mutex = "free"

\* the worker waits in recv at the timeout re-check, after operations made
\* under the guard and with budget left
C28_Witness ==
    /\ wpc = "recv"
    /\ done >= 1
    /\ counter >= 1
    /\ mutex = "free"

\* C29, as claimed: when the timeout re-check fires and no message waits in
\* the channel, the worker does not block: it can go on.
C29_RecheckNeverStalls_Claimed ==
    (wpc = "recv" /\ counter > 0 /\ chan = <<>>) => ENABLED Worker

\* The gated call o of a run
Op(name, a, b) == [op |-> name, a |-> a, b |-> b]

\* The bubble sort of [3, 1, 2] has been started
BubbleOn312 ==
    /\ sort = "BubbleSort"
    /\ start.numbers = <<3, 1, 2>>
    /\ wpc # "idle"

\* C31: under SortSpec, bubble sort on [3, 1, 2] stepped by Step messages
\* performs cmp_two(0, 1) = Greater, swap(0, 1) giving [1, 3, 2],
\* cmp_two(1, 2) = Greater, swap(1, 2) giving [1, 2, 3], then one more
\* comparison that is not Greater and no further swap, one operation per
\* Step, and returns Ok with the array [1, 2, 3].
C31_BubbleTrace ==
    BubbleOn312 =>
        /\ prog = <<Op("cmp_two", 0, 1), Op("swap", 0, 1), Op("cmp_two", 1, 2),
                    Op("swap", 1, 2), Op("cmp_two", 0, 1)>>
        /\ array.numbers = CASE ip <= 1 -> <<3, 1, 2>>
                              [] ip \in {2, 3} -> <<1, 3, 2>>
                              [] OTHER -> <<1, 2, 3>>
        /\ ip \in {0, 2} => ApplyOp(array, prog[ip + 1]).ret = "Greater"
        /\ ip = 4 => ApplyOp(array, prog[ip + 1]).ret = "Less"
        /\ done <= 1
        /\ result = "Ok" => ip = 5 /\ array.numbers = <<1, 2, 3>>

\* C31 witness: the stepped bubble sort of [3, 1, 2] ran to its end
C31_Witness ==
    /\ BubbleOn312
    /\ result = "Ok" /\ wpc = "finished"
    /\ ip = 5 /\ done = 1 /\ last = StepMsg

\* The Sort variants whose functions write the array through swap only
SwapOnly ==
    {"BubbleSort", "ShakerSort", "ExchangeSort", "CombSort", "OddEvenSort",
     "SelectionSort", "DoubleSelectionSort", "StoogeSort", "SlowSort",
     "QuickSort", "HeapSort"}

Swaps(p) == Cardinality({i \in 1..Len(p) : p[i].op = "swap"})

\* A run was started on the sorted array [1..N]
SortedStart == wpc # "idle" /\ start.numbers = Iota(Len(start.numbers))

\* C32 as stated: every swap-only variant run to completion on [1..N]
\* performed zero swaps and left the array unchanged.
C32_NoSwapOnSorted_Claimed ==
    sort \in SwapOnly /\ SortedStart /\ result = "Ok" =>
        Swaps(prog) = 0 /\ array.numbers = start.numbers

\* C32 amended: under SortSpec, every swap-only variant other than HeapSort
\* makes no swap on [1..N] and the array is never written during the run;
\* HeapSort on [1..N], N >= 2, does swap (it builds a max-heap first) and
\* its completed run leaves the array equal to [1..N] again.
C32_NoSwapOnSorted ==
    /\ sort \in SwapOnly \ {"HeapSort"} /\ SortedStart =>
           /\ Swaps(prog) = 0
           /\ array.numbers = start.numbers
           /\ array.writes = start.writes
    /\ sort = "HeapSort" /\ SortedStart =>
           /\ Len(start.numbers) >= 2 => Swaps(prog) >= 2
           /\ result = "Ok" => array.numbers = start.numbers

\* C32 witness: a swap-only variant other than HeapSort completed on
\* [1, 2, 3] after comparing
C32_Witness ==
    /\ SortedStart /\ Len(start.numbers) = 3
    /\ result = "Ok" /\ wpc = "finished"
    /\ sort = "SelectionSort" /\ array.comparisons > start.comparisons

\* HeapSort completed on [1, 2, 3] after swapping
C32_HeapWitness ==
    /\ SortedStart /\ Len(start.numbers) = 3
    /\ result = "Ok" /\ wpc = "finished"
    /\ sort = "HeapSort" /\ array.writes > start.writes

\* C35: the counter never underflows: it is a natural number in every
\* reachable state, every Tick in the channel grants at least 1, and the
\* decrement of perform_step is applied to a counter >= 1, also after the
\* timeout re-check replaced a non-zero counter by the next message's grant.
C35_CounterNeverUnderflows ==
    /\ counter \in Nat
    /\ \A i \in 1..Len(chan) : chan[i].kind = "Tick" => chan[i].count >= 1
    /\ wpc \in {"lock", "op"} => counter >= 1 /\ counter = Grant(last)
    /\ wpc = "call" /\ ip < Len(prog) /\ ~NeedRecv(counter, FALSE) => counter >= 1

\* C35 witness: operations were performed on a Tick's grant, the timeout
\* re-check sent the worker to the channel with budget left, and the message
\* waiting there is about to replace the counter
C35_Witness ==
    /\ wpc = "recv" /\ counter >= 1
    /\ last.kind = "Tick" /\ done >= 1
    /\ chan # <<>> /\ Head(chan).kind = "Tick" /\ Head(chan).count = 1

\* C36 as stated: a step() or tick() whose liveness check found the worker
\* alive sends its message and does not panic, also when the worker's sort
\* has returned (and dropped the Receiver) by the time of the send.
C36_SendNeverRaces_Claimed ==
    [][(Step \/ TickSend) /\ alive(handle) = "Some" =>
           /\ Len(chan') = Len(chan) + 1
           /\ failed' = failed
           /\ cpc' = "idle"]_vars

\* C39: controller and worker never deadlock.  A worker that has returned or
\* finished, by completion or by cancellation, has left the mutex free; a
\* worker waiting for the mutex finds it free; and while the controller
\* waits, in kill_sort's join for an unfinished thread or for a mutex the
\* worker holds, the worker can take a step.
C39_NoDeadlock ==
    /\ wpc \in {"idle", "returned", "finished"} => mutex = "free"
    /\ wpc = "lock" => mutex = "free"
    /\ cpc = "join" /\ wpc # "finished" => ENABLED Worker
    /\ mutex = "worker" => ENABLED Worker

\* C39 witness: the controller waits in join while the worker, cancelled in
\* the middle of its run, waits on the channel
C39_Witness ==
    /\ cpc = "join" /\ wpc = "recv"
    /\ ip >= 1 /\ ip < Len(prog)

\* C38 as stated: with budget for every gated call, every algorithm returns
\* on every array of N values taken from 1..=N, duplicates included, and
\* alive() then reports false.
C38_EveryRunTerminates_Claimed ==
    [][WorkerRunUnbounded => wpc' = "returned" /\ result' = "Ok"]_vars

\* C37 as stated: throughout a run the array keeps the size captured at
\* start_sort, every index of the worker's next gated call is smaller than
\* the array's current size, and no gated call panics, whatever the
\* controller calls in between (initialize, shuffle and reverse included).
C37_IndicesInRange_Claimed ==
    /\ wpc \in {"call", "recv", "lock", "op"} =>
           /\ Len(array.numbers) = Len(start.numbers)
           /\ ip < Len(prog) =>
                  ~OutOfRange(array, prog[ip + 1])
    /\ result # "panic"

\* C33 as stated: in the mutex-based Sorter, whenever the controller can
\* take the lock, comparisons() and accesses() equal the declared totals of
\* the gated operations applied to the array since the last reset_stats.
C33_CountersAtomic_Claimed ==
    /\ syncLock.comparisons = calls.cmps
    /\ syncLock.accesses = calls.incr

\* C34 as stated: in sort.rs every Sort variant run to completion on a
\* permutation of 1..=N leaves the array in non-decreasing order.
C34_SyncSorted_Claimed ==
    result = "Ok" => IsSorted(array.numbers)

====
